---------------------------- MODULE Spec2Model ----------------------------
(***************************************************************************)
(* Sherpa: the scoring engine (calculate_scores) and the file-backed       *)
(* Framework / Compass store with its backup-before-change contract, as    *)
(* implemented in backup_deprecated/app.py.                                *)
(*                                                                         *)
(* Numbers.  The program computes with Python floats.  Here every number   *)
(* is an exact rational <<n, d>> in lowest terms with d > 0, so that       *)
(* 6.25, 8.5 or 8.4999 are the values they denote and a comparison such as *)
(* total_score >= 8.5 is exact.  <<0, 0>> stands for the ZeroDivisionError *)
(* a Python division by 0 raises.                                          *)
(*                                                                         *)
(* Dictionaries are functions from a finite set of keys; None is a value   *)
(* of its own.                                                             *)
(***************************************************************************)
EXTENDS Integers, FiniteSets, Sequences, TLC

VARIABLES
    \* ---- one call of calculate_scores: its arguments ...
    service_scores, research_scores, intelligence_scores, resource_scores,
    additional_scores, custom_weights,
    \* ... its local list weighted_scores, what it returns or raises, and
    \* where the call is ("call" before it runs, "return" after)
    weighted_scores, result, exception, pc,
    \* ---- the store: the four directories, file name -> content
    frameworks, compass, backup_frameworks, backup_compass,
    \* the last storage call: its name, path, return value, what the file
    \* held just before it, and whether its copy step wrote the backup
    last_call,
    \* ---- the subnets table of the database, row id -> row
    subnets,
    \* the last submit of an evaluation form: which form, what it edited,
    \* what was stored for that evaluation before, whether it raised
    last_form,
    \* ---- the last call of load_frameworks / load_compasses and its result
    loaded,
    \* ---- one call of create_subnet_plot: the custom-eval column of its
    \* data frame and the colour values it computes from it
    custom_eval, norm_values,
    \* ---- the pages: the CSV file behind the visualization page, what the
    \* last render of a page showed, the criteria the framework editor keeps
    \* in st.session_state, and the calls of save_framework that are running
    csv_file, page, session_state, writers

score_vars == <<service_scores, research_scores, intelligence_scores,
                resource_scores, additional_scores, custom_weights,
                weighted_scores, result, exception, pc>>
store_vars == <<frameworks, compass, backup_frameworks, backup_compass, last_call>>
more_vars == <<subnets, last_form, loaded, custom_eval, norm_values>>
page_vars == <<csv_file, page, session_state, writers>>
vars == <<score_vars, store_vars, more_vars, page_vars>>

---------------------------------------------------------------------------
(* Bounds of the model *)

\* most criteria in the service group
MaxService == 2
\* most additional criteria
MaxAdditional == 2

---------------------------------------------------------------------------
(* Exact arithmetic standing for Python's float arithmetic *)

Abs(i) == IF i < 0 THEN -i ELSE i

RECURSIVE GCD(_, _)
GCD(a, b) == IF b = 0 THEN a ELSE GCD(b, a % b)

\* the rational n/d (d # 0) in lowest terms with a positive denominator
Rat(n, d) ==
    LET g == GCD(Abs(n), Abs(d))
        s == IF d < 0 THEN -1 ELSE 1
    IN  <<(s * n) \div g, (s * d) \div g>>

R(i) == <<i, 1>>

ZeroDivisionError == <<0, 0>>

LCM(a, b) == (a \div GCD(a, b)) * b

RatAdd(p, q) ==
    LET m == LCM(p[2], q[2])
    IN  Rat(p[1] * (m \div p[2]) + q[1] * (m \div q[2]), m)

RatNeg(p) == <<-p[1], p[2]>>

RatSub(p, q) == RatAdd(p, RatNeg(q))

RatMul(p, q) ==
    LET g1 == GCD(Abs(p[1]), q[2])
        g2 == GCD(Abs(q[1]), p[2])
    IN  Rat((p[1] \div g1) * (q[1] \div g2), (p[2] \div g2) * (q[2] \div g1))

\* Python's p / q: raises ZeroDivisionError when q is 0
RatDiv(p, q) ==
    IF q[1] = 0 THEN ZeroDivisionError
    ELSE RatMul(p, Rat(q[2], q[1]))

RatGE(p, q) == p[1] * q[2] >= q[1] * p[2]

RatLE(p, q) == RatGE(q, p)

RatLT(p, q) == ~RatGE(p, q)

---------------------------------------------------------------------------
(* Python values *)

None == [None |-> TRUE]

\* bool(d) of a dict or None: an empty dict and None are falsy
Truthy(d) == d # None /\ DOMAIN d # {}

\* all dicts with keys among K and values in V
Dicts(K, V) == UNION {[S -> V] : S \in SUBSET K}

EmptyDict == [k \in {} |-> R(0)]

\* sum(d.values())
RECURSIVE SumOver(_, _)
SumOver(d, S) ==
    IF S = {} THEN R(0)
    ELSE LET k == CHOOSE x \in S : TRUE
         IN  RatAdd(d[k], SumOver(d, S \ {k}))

sum(d) == SumOver(d, DOMAIN d)

len(d) == R(Cardinality(DOMAIN d))

\* weight_data.get(field, default)
get(weight_data, field, default) ==
    IF field \in DOMAIN weight_data THEN weight_data[field] ELSE default

\* a float standing where the code expects a dict
Float(q) == [float |-> q]

\* isinstance(weight_data, float)
is_float(weight_data) == "float" \in DOMAIN weight_data

---------------------------------------------------------------------------
(* calculate_scores *)

\* group_avg without its "if scores else 0" guard
group_avg_unguarded(scores) == RatDiv(sum(scores), len(scores))

\* group_avg that forgets to divide by the number of scores
group_avg_sum_only(scores) ==
    IF Truthy(scores) THEN sum(scores) ELSE R(0)

\* sum(scores.values()) / len(scores) if scores else 0
group_avg(scores) ==
    IF Truthy(scores) THEN RatDiv(sum(scores), len(scores)) ELSE R(0)

\* plotted without the doubling
plotted_unscaled(avg) == RatSub(avg, R(10))

\* (avg * 2) - 10
plotted(avg) == RatSub(RatMul(avg, R(2)), R(10))

\* contribution that does not invert the scale of a negative criterion
contribution_negative_not_inverted(score, weight_data) ==
    LET weight == get(weight_data, "weight", Rat(1, 2))
        criteria_type == get(weight_data, "type", "positive")
    IN  IF criteria_type \in {"positive", "negative"} THEN RatMul(score, weight)
        ELSE IF RatGE(score, R(5)) THEN RatMul(score, weight)
        ELSE RatMul(RatMul(RatSub(R(10), score), weight), R(-1))

\* contribution whose bidirectional pivot is exclusive (score > 5)
contribution_pivot_exclusive(score, weight_data) ==
    LET weight == get(weight_data, "weight", Rat(1, 2))
        criteria_type == get(weight_data, "type", "positive")
    IN  IF criteria_type = "positive" THEN RatMul(score, weight)
        ELSE IF criteria_type = "negative"
             THEN RatMul(RatSub(R(10), score), weight)
        ELSE IF ~RatLE(score, R(5)) THEN RatMul(score, weight)
        ELSE RatMul(RatMul(RatSub(R(10), score), weight), R(-1))

\* contribution without the sign change below the bidirectional pivot
contribution_below_pivot_unsigned(score, weight_data) ==
    LET weight == get(weight_data, "weight", Rat(1, 2))
        criteria_type == get(weight_data, "type", "positive")
    IN  IF criteria_type = "positive" THEN RatMul(score, weight)
        ELSE IF criteria_type = "negative"
             THEN RatMul(RatSub(R(10), score), weight)
        ELSE IF RatGE(score, R(5)) THEN RatMul(score, weight)
        ELSE RatMul(RatSub(R(10), score), weight)

\* the element one (key, score) appends to weighted_scores
contribution(score, weight_data) ==
    LET weight == get(weight_data, "weight", Rat(1, 2))
        criteria_type == get(weight_data, "type", "positive")
    IN  IF criteria_type = "positive" THEN RatMul(score, weight)
        ELSE IF criteria_type = "negative"
             THEN RatMul(RatSub(R(10), score), weight)
        ELSE IF RatGE(score, R(5)) THEN RatMul(score, weight)
        ELSE RatMul(RatMul(RatSub(R(10), score), weight), R(-1))

\* the keys the loop appends an element for
contributing_keys(scores, weights) ==
    IF Truthy(scores) /\ Truthy(weights)
    THEN {key \in DOMAIN scores : key \in DOMAIN weights}
    ELSE {}

\* weighted_scores where a score without a weight entry contributes with the
\* default weight and type (custom_weights.get(key, {}))
weighted_scores_of_all_scores(scores, weights) ==
    IF Truthy(scores) /\ Truthy(weights)
    THEN [key \in DOMAIN scores |->
            contribution(scores[key],
                         IF key \in DOMAIN weights THEN weights[key] ELSE EmptyDict)]
    ELSE EmptyDict

\* the list weighted_scores when the loop is over, each element under the
\* key that produced it
weighted_scores_of(scores, weights) ==
    [key \in contributing_keys(scores, weights) |->
        contribution(scores[key], weights[key])]

\* additional_score: 0 unless weighted_scores is non-empty
additional_score_of(ws) ==
    IF DOMAIN ws # {} THEN RatDiv(sum(ws), RatMul(len(ws), R(5))) ELSE R(0)

\* base_score taken from the plotted values instead of the raw averages
base_score_of_plotted(service_avg, research_avg, intelligence_avg, resource_avg) ==
    RatDiv(RatAdd(RatAdd(RatAdd(plotted(service_avg), plotted(research_avg)),
                         plotted(intelligence_avg)),
                  plotted(resource_avg)), R(4))

\* base_score
base_score_of(service_avg, research_avg, intelligence_avg, resource_avg) ==
    RatDiv(RatAdd(RatAdd(RatAdd(service_avg, research_avg), intelligence_avg),
                  resource_avg), R(4))

\* the ladder with exclusive lower bounds
tier_of_exclusive(total_score) ==
    IF ~RatLE(total_score, Rat(17, 2)) THEN "Tier A"
    ELSE IF ~RatLE(total_score, R(7)) THEN "Tier B"
    ELSE IF ~RatLE(total_score, Rat(11, 2)) THEN "Tier C"
    ELSE "Tier D"

\* the if/elif ladder over total_score
tier_of(total_score) ==
    IF RatGE(total_score, Rat(17, 2)) THEN "Tier A"
    ELSE IF RatGE(total_score, R(7)) THEN "Tier B"
    ELSE IF RatGE(total_score, Rat(11, 2)) THEN "Tier C"
    ELSE "Tier D"

NoResult == [raised |-> TRUE]

\* TRUE when the loop reaches a key whose weight entry is a float, on which
\* weight_data.get raises AttributeError
weight_lookup_raises(scores, weights) ==
    \E key \in contributing_keys(scores, weights) : is_float(weights[key])

\* what the call returns; NoResult when it raised
calculate_scores(service, research, intelligence, resource, scores, weights) ==
    LET service_avg == group_avg(service)
        research_avg == group_avg(research)
        intelligence_avg == group_avg(intelligence)
        resource_avg == group_avg(resource)
        ws == weighted_scores_of(scores, weights)
        additional_score == additional_score_of(ws)
    IN  IF weight_lookup_raises(scores, weights) THEN NoResult
        ELSE IF ZeroDivisionError \in {service_avg, research_avg,
                                       intelligence_avg, resource_avg,
                                       additional_score}
        THEN NoResult
        ELSE LET base_score == base_score_of(service_avg, research_avg,
                                             intelligence_avg, resource_avg)
                 total_score == RatAdd(base_score, additional_score)
             IN  [service_research_score |->
                      <<plotted(service_avg), plotted(research_avg)>>,
                  intelligence_resource_score |->
                      <<plotted(intelligence_avg), plotted(resource_avg)>>,
                  total_score |-> total_score,
                  tier |-> tier_of(total_score),
                  base_score |-> base_score,
                  additional_score |-> additional_score,
                  service_avg |-> service_avg,
                  research_avg |-> research_avg,
                  intelligence_avg |-> intelligence_avg,
                  resource_avg |-> resource_avg]

---------------------------------------------------------------------------
(* The inputs the scoring calls are made with *)

ServiceKeyNames == <<"a", "b", "f", "g">>
ServiceKeys == {ServiceKeyNames[i] : i \in 1..MaxService}
ResearchKeys == {"c"}
IntelligenceKeys == {"d"}
ResourceKeys == {"e"}

AdditionalKeyNames == <<"x", "y", "z", "w">>
AdditionalKeys == {AdditionalKeyNames[i] : i \in 1..MaxAdditional}

\* raw scores of the main groups: the ends and the middle of the slider
\* domain [0,10] and one value outside it, which the engine does not reject
MainValues == {R(0), R(5), R(10), R(12)}

\* raw scores around the three tier thresholds
TierProbes == {Rat(54999, 10000), Rat(11, 2), Rat(69999, 10000), R(7),
               Rat(84999, 10000), Rat(17, 2)}

\* raw additional scores: the ends, the pivot 5 and a value just below it
AdditionalValues == {R(0), Rat(4999, 1000), R(5), R(10)}

\* weight records: weight 1 with each type, and records that leave out the
\* weight (then 0.5) or the type (then positive)
WeightData ==
    {[weight |-> R(1), type |-> t] : t \in {"positive", "negative", "bidirectional"}}
    \cup {[type |-> "bidirectional"], [weight |-> R(1)]}

Uniform(v) == [service |-> [k \in {"a"} |-> v], research |-> [k \in {"c"} |-> v],
               intelligence |-> [k \in {"d"} |-> v], resource |-> [k \in {"e"} |-> v]]

AllEmpty == [service |-> EmptyDict, research |-> EmptyDict,
             intelligence |-> EmptyDict, resource |-> EmptyDict]

\* the call has not run yet
NotCalled ==
    /\ weighted_scores = EmptyDict
    /\ result = NoResult
    /\ exception = "None"
    /\ pc = "call"

\* the main groups vary, no additional criteria
MainInputs ==
    /\ service_scores \in Dicts(ServiceKeys, MainValues)
    /\ research_scores \in Dicts(ResearchKeys, MainValues)
    /\ intelligence_scores \in Dicts(IntelligenceKeys, MainValues)
    /\ resource_scores \in Dicts(ResourceKeys, MainValues)
    /\ additional_scores = None
    /\ custom_weights = None

\* every group holds the same score, next to a tier threshold
TierInputs ==
    /\ \E v \in TierProbes :
        /\ service_scores = Uniform(v).service
        /\ research_scores = Uniform(v).research
        /\ intelligence_scores = Uniform(v).intelligence
        /\ resource_scores = Uniform(v).resource
    /\ additional_scores = None
    /\ custom_weights = None

\* the additional criteria vary over a fixed main part
AdditionalInputs ==
    /\ \E m \in {AllEmpty, Uniform(R(5))} :
        /\ service_scores = m.service
        /\ research_scores = m.research
        /\ intelligence_scores = m.intelligence
        /\ resource_scores = m.resource
    /\ additional_scores \in Dicts(AdditionalKeys, AdditionalValues) \cup {None}
    /\ custom_weights \in Dicts(AdditionalKeys, WeightData) \cup {None}

Inputs == MainInputs \/ TierInputs \/ AdditionalInputs

---------------------------------------------------------------------------
(* The scoring call as a state machine *)

StoreIdle ==
    /\ frameworks = EmptyDict
    /\ compass = EmptyDict
    /\ backup_frameworks = EmptyDict
    /\ backup_compass = EmptyDict
    /\ last_call = [op |-> "none"]

\* nothing in the database, no form submitted, nothing loaded or plotted
PageIdle ==
    /\ csv_file = [exists |-> FALSE]
    /\ page = [op |-> "none"]
    /\ session_state = EmptyDict
    /\ writers = EmptyDict

MoreIdle ==
    /\ subnets = [seq |-> 0, rows |-> EmptyDict]
    /\ last_form = [op |-> "none", n |-> 0]
    /\ loaded = [op |-> "none"]
    /\ custom_eval = <<>>
    /\ norm_values = [op |-> "none"]

Init == Inputs /\ NotCalled /\ StoreIdle /\ MoreIdle /\ PageIdle

CalculateScores ==
    /\ pc = "call"
    /\ LET r == calculate_scores(service_scores, research_scores,
                                 intelligence_scores, resource_scores,
                                 additional_scores, custom_weights)
       IN  /\ result' = r
           /\ exception' = IF r = NoResult THEN "ZeroDivisionError" ELSE "None"
    /\ weighted_scores' = weighted_scores_of(additional_scores, custom_weights)
    /\ pc' = "return"
    /\ UNCHANGED <<service_scores, research_scores, intelligence_scores,
                   resource_scores, additional_scores, custom_weights>>
    /\ UNCHANGED <<store_vars, more_vars, page_vars>>

Next == CalculateScores

Spec == Init /\ [][Next]_vars

Returned == pc = "return" /\ exception = "None"

---------------------------------------------------------------------------
(* The file store: frameworks/, compass/, backup/frameworks/, backup/compass/ *)

\* highest counter save_compass tries when it looks for a free file name
MaxCounter == 1

\* names are sequences of characters
FrameworkNames == {<<"A", " ">>}
CompassNames == {<<"S", " ">>}

\* the free text of a document
Documents == {"doc1", "doc2"}

\* a document is a Python dict, a function from its keys to their values;
\* Absent stands for the content of a file that does not exist
Absent == [absent |-> TRUE]

\* the dict d after d[k] = v
with_key(d, k, v) == [x \in DOMAIN d \cup {k} |-> IF x = k THEN v ELSE d[x]]

\* what the forms hand to save_framework: the create and import forms a dict
\* without 'active', the edit form a copy of the loaded framework
FrameworkData ==
    {[name |-> n] : n \in FrameworkNames}
        \cup {[name |-> n, active |-> a] : n \in FrameworkNames, a \in BOOLEAN}

\* what the forms hand to save_compass
CompassData == [name : CompassNames, description : Documents]

\* save_framework: 'active' defaults to True before the dict is dumped
\* (the updated_at time stamp is not modelled)
framework_document(framework_data) ==
    IF "active" \in DOMAIN framework_data THEN framework_data
    ELSE with_key(framework_data, "active", TRUE)

\* str.lower() on one character
lower(c) == CASE c = "A" -> "a" [] c = "S" -> "s" [] OTHER -> c

\* name.lower().replace(' ', '_')
slug(name) ==
    [i \in DOMAIN name |-> IF lower(name[i]) = " " THEN "_" ELSE lower(name[i])]

\* frameworks/<slug>.json
framework_filename(name) == slug(name)

\* compass/<slug>.json for counter 0, compass/<slug>_<counter>.json otherwise
compass_filename(name, counter) == <<slug(name), counter>>

FrameworkFiles == {framework_filename(n) : n \in FrameworkNames}
CompassFiles == {compass_filename(n, c) : n \in CompassNames, c \in 0..MaxCounter}

\* os.path.exists(path) within its directory
exists(dir, path) == path \in DOMAIN dir

\* the directory after a file was written (or copied) to path
put(dir, path, doc) ==
    [f \in DOMAIN dir \cup {path} |-> IF f = path THEN doc ELSE dir[f]]

\* the directory after os.remove(path)
remove(dir, path) == [f \in DOMAIN dir \ {path} |-> dir[f]]

\* backup_framework / backup_compass: shutil.copy2 into the backup directory
\* under the same base name; TRUE when the copy was made.  The copy raises,
\* and the function returns False, when the source is missing or the copy
\* fails (copy_ok = FALSE); the backup directory is then left as it was.
backup_made(dir, filepath, copy_ok) == exists(dir, filepath) /\ copy_ok

backup_file(dir, backup_dir, filepath, copy_ok) ==
    IF backup_made(dir, filepath, copy_ok)
    THEN put(backup_dir, filepath, dir[filepath])
    ELSE backup_dir

Before(dir, filepath) == IF exists(dir, filepath) THEN dir[filepath] ELSE Absent

\* delete_framework / delete_compass: the backup call, whose return value is
\* not looked at, then os.remove, which raises when the file is missing;
\* TRUE when the file was removed, which is also what the function returns
delete_removes(dir, filepath) == exists(dir, filepath)

delete_file(dir, filepath) ==
    IF delete_removes(dir, filepath) THEN remove(dir, filepath) ELSE dir

\* save_framework / save_compass after the file name is known and an existing
\* file was backed up: open(filename, 'w') and json.dump
save_file(dir, filename, doc) == put(dir, filename, doc)

\* the file name of save_compass without the loop over the counter
first_compass_filename(dir, name, counter) == compass_filename(name, counter)

\* the first free compass file name, the counter loop of save_compass
RECURSIVE free_compass_filename(_, _, _)
free_compass_filename(dir, name, counter) ==
    IF exists(dir, compass_filename(name, counter))
    THEN free_compass_filename(dir, name, counter + 1)
    ELSE compass_filename(name, counter)

ScoreIdle ==
    /\ service_scores = EmptyDict
    /\ research_scores = EmptyDict
    /\ intelligence_scores = EmptyDict
    /\ resource_scores = EmptyDict
    /\ additional_scores = None
    /\ custom_weights = None
    /\ weighted_scores = EmptyDict
    /\ result = NoResult
    /\ exception = "None"
    /\ pc = "idle"

InitStore == ScoreIdle /\ StoreIdle /\ MoreIdle /\ PageIdle

SaveFramework ==
    \E framework_data \in FrameworkData, given \in FrameworkFiles \cup {<<>>},
       copy_ok \in BOOLEAN :
        LET filename == IF given = <<>>
                        THEN framework_filename(framework_data.name)
                        ELSE given
        IN  /\ backup_frameworks' =
                  backup_file(frameworks, backup_frameworks, filename, copy_ok)
            /\ frameworks' = save_file(frameworks, filename,
                                       framework_document(framework_data))
            /\ last_call' = [op |-> "save_framework", path |-> filename,
                             before |-> Before(frameworks, filename),
                             copied |-> backup_made(frameworks, filename, copy_ok),
                             changed |-> TRUE, returned |-> TRUE]
            /\ UNCHANGED <<compass, backup_compass>>
            /\ UNCHANGED <<page_vars, score_vars, more_vars>>

\* delete_framework that also removes the compass files
DeleteFrameworkAndCompasses ==
    \E filepath \in FrameworkFiles, copy_ok \in BOOLEAN :
        /\ backup_frameworks' =
              backup_file(frameworks, backup_frameworks, filepath, copy_ok)
        /\ frameworks' = delete_file(frameworks, filepath)
        /\ last_call' = [op |-> "delete_framework", path |-> filepath,
                         before |-> Before(frameworks, filepath),
                         copied |-> backup_made(frameworks, filepath, copy_ok),
                         changed |-> delete_removes(frameworks, filepath),
                         returned |-> delete_removes(frameworks, filepath)]
        /\ compass' = IF delete_removes(frameworks, filepath)
                      THEN EmptyDict ELSE compass
        /\ UNCHANGED backup_compass
        /\ UNCHANGED <<page_vars, score_vars, more_vars>>

DeleteFramework ==
    \E filepath \in FrameworkFiles, copy_ok \in BOOLEAN :
        /\ backup_frameworks' =
              backup_file(frameworks, backup_frameworks, filepath, copy_ok)
        /\ frameworks' = delete_file(frameworks, filepath)
        /\ last_call' = [op |-> "delete_framework", path |-> filepath,
                         before |-> Before(frameworks, filepath),
                         copied |-> backup_made(frameworks, filepath, copy_ok),
                         changed |-> delete_removes(frameworks, filepath),
                         returned |-> delete_removes(frameworks, filepath)]
        /\ UNCHANGED <<compass, backup_compass>>
        /\ UNCHANGED <<page_vars, score_vars, more_vars>>

SaveCompass ==
    \E doc \in CompassData, given \in CompassFiles \cup {<<>>},
       copy_ok \in BOOLEAN :
        /\ given = <<>> =>
              \E c \in 0..MaxCounter :
                  ~exists(compass, compass_filename(doc.name, c))
        /\ LET filename == IF given = <<>>
                           THEN free_compass_filename(compass, doc.name, 0)
                           ELSE given
           IN  /\ backup_compass' =
                     backup_file(compass, backup_compass, filename, copy_ok)
               /\ compass' = save_file(compass, filename, doc)
               /\ last_call' = [op |-> "save_compass", path |-> filename,
                                before |-> Before(compass, filename),
                                copied |-> backup_made(compass, filename, copy_ok),
                                changed |-> TRUE, returned |-> TRUE,
                                given |-> given # <<>>]
        /\ UNCHANGED <<frameworks, backup_frameworks>>
        /\ UNCHANGED <<page_vars, score_vars, more_vars>>

DeleteCompass ==
    \E filepath \in CompassFiles, copy_ok \in BOOLEAN :
        /\ backup_compass' = backup_file(compass, backup_compass, filepath, copy_ok)
        /\ compass' = delete_file(compass, filepath)
        /\ last_call' = [op |-> "delete_compass", path |-> filepath,
                         before |-> Before(compass, filepath),
                         copied |-> backup_made(compass, filepath, copy_ok),
                         changed |-> delete_removes(compass, filepath),
                         returned |-> delete_removes(compass, filepath)]
        /\ UNCHANGED <<frameworks, backup_frameworks>>
        /\ UNCHANGED <<page_vars, score_vars, more_vars>>

\* update_framework_active_status: json.load, framework_data['active'] =
\* is_active, json.dump over the same file; no backup call.  A missing file
\* makes open raise, and the function returns False.
set_active(dir, filepath, is_active) ==
    IF exists(dir, filepath)
    THEN put(dir, filepath, with_key(dir[filepath], "active", is_active))
    ELSE dir

\* the backup directory after update_framework_active_status: as it was
set_active_backup(dir, backup_dir, filepath) == backup_dir

UpdateFrameworkActiveStatus ==
    \E filepath \in FrameworkFiles, is_active \in BOOLEAN :
        /\ frameworks' = set_active(frameworks, filepath, is_active)
        /\ backup_frameworks' =
              set_active_backup(frameworks, backup_frameworks, filepath)
        /\ last_call' = [op |-> "update_framework_active_status",
                         path |-> filepath,
                         before |-> Before(frameworks, filepath),
                         copied |-> FALSE,
                         changed |-> exists(frameworks, filepath),
                         returned |-> exists(frameworks, filepath)]
        /\ UNCHANGED <<compass, backup_compass>>
        /\ UNCHANGED <<page_vars, score_vars, more_vars>>

NextStore ==
    \/ SaveFramework
    \/ DeleteFramework
    \/ UpdateFrameworkActiveStatus
    \/ SaveCompass
    \/ DeleteCompass

SpecStore == InitStore /\ [][NextStore]_vars

---------------------------------------------------------------------------
(* The evaluation forms and the subnets table *)

\* most rows ever inserted into the subnets table
MaxRows == 1
\* most form submits in one session
MaxSubmits == 3

\* the criteria keys of the framework the forms score against
MainCriteria ==
    [service |-> {"a"}, research |-> ResearchKeys,
     intelligence |-> IntelligenceKeys, resource |-> ResourceKeys]

\* what the selected framework holds under 'additional_criteria' when a form
\* is rendered: nothing, or one positive criterion of weight 1
FrameworkAdditional ==
    {EmptyDict,
     [x |-> [description |-> "doc1", weight |-> R(1), type |-> "positive"]]}

\* the name typed into the forms
FormName == <<"S", " ">>

\* {k: v.get('weight', 0.5) for k, v in additional_criteria.items()}, and the
\* additional_weights the admin create form collects: floats
float_weights(additional_criteria) ==
    [k \in DOMAIN additional_criteria |->
        Float(get(additional_criteria[k], "weight", Rat(1, 2)))]

\* one tab of sliders: a slider per key, standing at the stored score of that
\* key (default_value when none is stored) unless the user moves the tab's
\* sliders to max_value
slider_scores(keys, default_scores, default_value, moved, max_value) ==
    [key \in keys |->
        IF moved THEN max_value ELSE get(default_scores, key, default_value)]

\* the dict the forms build from the slider values and the computed scores
evaluation(name, service, research, intelligence, resource, additional, weights, scores) ==
    [name |-> name,
     service_oriented_scores |-> service,
     research_oriented_scores |-> research,
     intelligence_oriented_scores |-> intelligence,
     resource_oriented_scores |-> resource,
     additional_criteria_scores |-> [scores |-> additional, weights |-> weights],
     service_research_score |-> scores.service_research_score,
     intelligence_resource_score |-> scores.intelligence_resource_score,
     total_score |-> scores.total_score,
     tier |-> scores.tier]

\* calculate_scores over the raw scores and the weights a record holds
record_scores(data) ==
    LET additional == get(data, "additional_criteria_scores", EmptyDict)
    IN  calculate_scores(get(data, "service_oriented_scores", EmptyDict),
                         get(data, "research_oriented_scores", EmptyDict),
                         get(data, "intelligence_oriented_scores", EmptyDict),
                         get(data, "resource_oriented_scores", EmptyDict),
                         get(additional, "scores", EmptyDict),
                         get(additional, "weights", EmptyDict))

\* the row that trusts the total_score and tier of the caller's dict
subnet_row_as_supplied(subnet_data, scores) ==
    [name |-> get(subnet_data, "name", <<>>),
     service_oriented_scores |-> get(subnet_data, "service_oriented_scores", EmptyDict),
     research_oriented_scores |-> get(subnet_data, "research_oriented_scores", EmptyDict),
     intelligence_oriented_scores |->
         get(subnet_data, "intelligence_oriented_scores", EmptyDict),
     resource_oriented_scores |-> get(subnet_data, "resource_oriented_scores", EmptyDict),
     additional_criteria_scores |->
         get(subnet_data, "additional_criteria_scores", EmptyDict),
     service_research_score |-> scores.service_research_score,
     intelligence_resource_score |-> scores.intelligence_resource_score,
     total_score |-> get(subnet_data, "total_score", R(0)),
     tier |-> get(subnet_data, "tier", "N/A")]

\* the column values save_subnet binds: the caller's raw scores and the
\* scores it has just computed itself
subnet_row(subnet_data, scores) ==
    [name |-> get(subnet_data, "name", <<>>),
     service_oriented_scores |-> get(subnet_data, "service_oriented_scores", EmptyDict),
     research_oriented_scores |-> get(subnet_data, "research_oriented_scores", EmptyDict),
     intelligence_oriented_scores |->
         get(subnet_data, "intelligence_oriented_scores", EmptyDict),
     resource_oriented_scores |-> get(subnet_data, "resource_oriented_scores", EmptyDict),
     additional_criteria_scores |->
         get(subnet_data, "additional_criteria_scores", EmptyDict),
     service_research_score |-> scores.service_research_score,
     intelligence_resource_score |-> scores.intelligence_resource_score,
     total_score |-> scores.total_score,
     tier |-> scores.tier]

\* 'id' in subnet_data and subnet_data['id'] (an id of None is modelled as
\* no 'id' key: every read of it in the code treats the two alike)
has_id(subnet_data) == "id" \in DOMAIN subnet_data /\ subnet_data.id # 0

\* the table after save_subnet: UPDATE ... WHERE id=? when the dict carries
\* an id, INSERT under the next AUTOINCREMENT id otherwise; as it was when
\* calculate_scores raised
save_subnet(db, subnet_data) ==
    LET saved(scores) ==
            IF scores = NoResult THEN db
            ELSE IF has_id(subnet_data)
            THEN IF subnet_data.id \in DOMAIN db.rows
                 THEN [db EXCEPT !.rows =
                          put(db.rows, subnet_data.id,
                              subnet_row(subnet_data, scores))]
                 ELSE db
            ELSE [seq |-> db.seq + 1,
                  rows |-> put(db.rows, db.seq + 1,
                               subnet_row(subnet_data, scores))]
    IN  CHOOSE after \in {saved(scores) : scores \in {record_scores(subnet_data)}} :
            TRUE

\* DELETE FROM subnets; AUTOINCREMENT ids are not handed out again
clear_all_subnets(db) == [db EXCEPT !.rows = EmptyDict]

\* what load_compasses appends for a file that holds a dict
loaded_compass(filepath, doc) ==
    with_key(with_key(doc, "_filepath", filepath), "enabled", TRUE)

\* what pressing Edit puts into st.session_state.subnet_to_edit: for a table
\* row row.to_dict(), for a compass a dict of its name and raw scores
row_to_edit(db, id) == with_key(db.rows[id], "id", id)

compass_to_edit(doc) ==
    [name |-> get(doc, "name", <<>>),
     service_oriented_scores |-> get(doc, "service_oriented_scores", EmptyDict),
     research_oriented_scores |-> get(doc, "research_oriented_scores", EmptyDict),
     intelligence_oriented_scores |->
         get(doc, "intelligence_oriented_scores", EmptyDict),
     resource_oriented_scores |-> get(doc, "resource_oriented_scores", EmptyDict),
     additional_criteria_scores |-> get(doc, "additional_criteria_scores", EmptyDict)]

InitForms == ScoreIdle /\ StoreIdle /\ MoreIdle /\ PageIdle

\* dict.update: d with every key of e set to e's value
merge(d, e) ==
    [k \in DOMAIN d \cup DOMAIN e |-> IF k \in DOMAIN e THEN e[k] ELSE d[k]]

\* what a submit leaves in last_form: the form, whether it raised instead of
\* saving, whether a slider was moved, the compass file and table row (<<>>
\* and 0 for none) the edited evaluation was taken from, and the number of
\* submits so far
form_record(op, raised, moved, file, id) ==
    [op |-> op, raised |-> raised, moved |-> moved, file |-> file, id |-> id,
     n |-> last_form.n + 1]

\* the submit of the form of add_subnets_page.  subnet_data is
\* st.session_state.subnet_to_edit (Absent when nothing is being edited), file
\* the compass file it was taken from.  The sliders follow the criteria of the selected framework;
\* the weights are that framework's current ones, as floats.
SubmitAddSubnets(op, subnet_data, file) ==
    \E additional_criteria \in FrameworkAdditional, moved \in BOOLEAN :
        LET stored == get(subnet_data, "additional_criteria_scores", EmptyDict)
            service == slider_scores(MainCriteria.service,
                           get(subnet_data, "service_oriented_scores", EmptyDict),
                           R(5), moved, R(10))
            research == slider_scores(MainCriteria.research,
                           get(subnet_data, "research_oriented_scores", EmptyDict),
                           R(5), FALSE, R(10))
            intelligence == slider_scores(MainCriteria.intelligence,
                           get(subnet_data, "intelligence_oriented_scores", EmptyDict),
                           R(5), FALSE, R(10))
            resource == slider_scores(MainCriteria.resource,
                           get(subnet_data, "resource_oriented_scores", EmptyDict),
                           R(5), FALSE, R(10))
            additional == slider_scores(DOMAIN additional_criteria,
                           get(stored, "scores", EmptyDict), R(5), FALSE, R(10))
            weights == float_weights(additional_criteria)
        IN  \E scores \in {calculate_scores(service, research, intelligence,
                                            resource, additional, weights)} :
            LET data == evaluation(FormName, service, research, intelligence,
                                   resource, additional, weights, scores)
                new_data == IF "id" \in DOMAIN subnet_data
                            THEN with_key(data, "id", subnet_data.id)
                            ELSE data
            IN
            /\ last_form.n < MaxSubmits
            /\ \/ /\ scores = NoResult
                  /\ last_form' = form_record(op, TRUE, moved, file,
                                              get(subnet_data, "id", 0))
                  /\ UNCHANGED <<subnets, compass>>
               \/ /\ scores # NoResult
                  /\ has_id(new_data) \/ subnets.seq < MaxRows
                  /\ \E c \in 0..MaxCounter :
                        ~exists(compass, compass_filename(FormName, c))
                  /\ \E saved_data \in {new_data} :
                        /\ subnets' = save_subnet(subnets, saved_data)
                        /\ compass' = save_file(compass,
                                          free_compass_filename(compass, FormName, 0),
                                          saved_data)
                  /\ last_form' = form_record(op, FALSE, moved, file,
                                              get(subnet_data, "id", 0))
            /\ UNCHANGED <<frameworks, backup_frameworks, backup_compass, last_call>>
            /\ UNCHANGED <<page_vars, score_vars, loaded, custom_eval, norm_values>>

\* "Add Subnet": nothing is being edited
AddSubnet == SubmitAddSubnets("add_subnet", Absent, <<>>)

\* "Update Subnet" after Edit on a row of the table
UpdateSubnetRow ==
    \E id \in DOMAIN subnets.rows :
        SubmitAddSubnets("update_row", row_to_edit(subnets, id), <<>>)

\* "Update Subnet" after Edit on a compass of the list
UpdateSubnetCompass ==
    \E file \in DOMAIN compass :
        SubmitAddSubnets("update_compass",
                         compass_to_edit(loaded_compass(file, compass[file])),
                         file)

\* admin console, Create Compass Evaluation: calculate_scores runs when the
\* page is drawn, the button then saves under a new file name
AdminCreateCompass ==
    \E additional_criteria \in FrameworkAdditional, moved \in BOOLEAN :
        LET service == slider_scores(MainCriteria.service, EmptyDict,
                                     Rat(1, 2), moved, R(3))
            research == slider_scores(MainCriteria.research, EmptyDict,
                                      Rat(1, 2), FALSE, R(3))
            intelligence == slider_scores(MainCriteria.intelligence, EmptyDict,
                                          Rat(1, 2), FALSE, R(3))
            resource == slider_scores(MainCriteria.resource, EmptyDict,
                                      Rat(1, 2), FALSE, R(3))
            additional == slider_scores(DOMAIN additional_criteria, EmptyDict,
                                        Rat(1, 2), FALSE, R(1))
            weights == float_weights(additional_criteria)
        IN  \E scores \in {calculate_scores(service, research, intelligence,
                                            resource, additional, weights)} :
            LET compass_data == evaluation(FormName, service, research,
                                           intelligence, resource, additional,
                                           weights, scores)
            IN
            /\ last_form.n < MaxSubmits
            /\ \/ /\ scores = NoResult
                  /\ last_form' = form_record("admin_create", TRUE, moved, <<>>, 0)
                  /\ UNCHANGED compass
               \/ /\ scores # NoResult
                  /\ \E c \in 0..MaxCounter :
                        ~exists(compass, compass_filename(FormName, c))
                  /\ compass' = save_file(compass,
                                    free_compass_filename(compass, FormName, 0),
                                    compass_data)
                  /\ last_form' = form_record("admin_create", FALSE, moved, <<>>, 0)
            /\ UNCHANGED <<frameworks, backup_frameworks, backup_compass, last_call>>
            /\ UNCHANGED <<page_vars, score_vars, subnets, loaded, custom_eval, norm_values>>

\* st.slider(min_value=0.0, max_value=3.0, value=float(score)) accepts the
\* stored score
in_slider_range(scores) ==
    \A key \in DOMAIN scores : RatGE(scores[key], R(0)) /\ RatLE(scores[key], R(3))

\* admin console, Edit Compass Evaluation: the sliders follow the keys and
\* the scores stored in the selected compass, the weights are the stored
\* ones; the button overwrites the compass's own file
AdminEditCompass ==
    \E file \in DOMAIN compass, moved \in BOOLEAN, copy_ok \in BOOLEAN :
        LET selected_compass == loaded_compass(file, compass[file])
            stored == get(selected_compass, "additional_criteria_scores", EmptyDict)
            stored_service == get(selected_compass, "service_oriented_scores", EmptyDict)
            stored_research == get(selected_compass, "research_oriented_scores", EmptyDict)
            stored_intelligence ==
                get(selected_compass, "intelligence_oriented_scores", EmptyDict)
            stored_resource == get(selected_compass, "resource_oriented_scores", EmptyDict)
            updated_service == slider_scores(DOMAIN stored_service, stored_service,
                                             R(0), moved, R(3))
            updated_additional == get(stored, "scores", EmptyDict)
            additional_weights == get(stored, "weights", EmptyDict)
        IN  \E scores \in {calculate_scores(updated_service, stored_research,
                                            stored_intelligence, stored_resource,
                                            updated_additional,
                                            additional_weights)} :
            LET updated_compass ==
                merge(selected_compass,
                      evaluation(FormName, updated_service, stored_research,
                                 stored_intelligence, stored_resource,
                                 updated_additional, additional_weights, scores))
            IN
            /\ last_form.n < MaxSubmits
            /\ in_slider_range(stored_service) /\ in_slider_range(stored_research)
            /\ in_slider_range(stored_intelligence)
            /\ in_slider_range(stored_resource)
            /\ \/ /\ scores = NoResult
                  /\ last_form' = form_record("admin_edit", TRUE, moved, file, 0)
                  /\ UNCHANGED <<compass, backup_compass>>
               \/ /\ scores # NoResult
                  /\ backup_compass' =
                        backup_file(compass, backup_compass, file, copy_ok)
                  /\ compass' = save_file(compass, file, updated_compass)
                  /\ last_form' = form_record("admin_edit", FALSE, moved, file, 0)
            /\ UNCHANGED <<frameworks, backup_frameworks, last_call>>
            /\ UNCHANGED <<page_vars, score_vars, subnets, loaded, custom_eval, norm_values>>

\* the example evaluation of load_example_subnets, cut down to the criteria of
\* the model: raw scores, one additional score and its weight entry as a dict
ExampleSubnet ==
    [name |-> FormName,
     service_oriented_scores |-> [a |-> R(7)],
     research_oriented_scores |-> [c |-> R(5)],
     intelligence_oriented_scores |-> [d |-> R(8)],
     resource_oriented_scores |-> [e |-> R(5)],
     additional_criteria_scores |->
         [scores |-> [x |-> R(4)],
          weights |-> [x |-> [weight |-> R(1), type |-> "positive"]]]]

\* load_example_subnets: clear_all_subnets, then save_subnet per example
LoadExampleSubnets ==
    /\ last_form.n < MaxSubmits
    /\ subnets.seq < MaxRows
    /\ subnets' = save_subnet(clear_all_subnets(subnets), ExampleSubnet)
    /\ last_form' = form_record("load_examples", FALSE, FALSE, <<>>, 0)
    /\ UNCHANGED <<frameworks, compass, backup_frameworks, backup_compass, last_call>>
    /\ UNCHANGED <<page_vars, score_vars, loaded, custom_eval, norm_values>>

NextForms ==
    \/ AddSubnet
    \/ UpdateSubnetRow
    \/ UpdateSubnetCompass
    \/ AdminCreateCompass
    \/ AdminEditCompass
    \/ LoadExampleSubnets

SpecForms == InitForms /\ [][NextForms]_vars

---------------------------------------------------------------------------
(* Framework operations on a store that already holds evaluations *)

\* the documents "Add Subnet" stores for a framework without additional
\* criteria: the service slider left at 5.0 or moved to 10.0
StoredEvaluations ==
    {evaluation(FormName, [a |-> v], [c |-> R(5)], [d |-> R(5)], [e |-> R(5)],
                EmptyDict, EmptyDict,
                calculate_scores([a |-> v], [c |-> R(5)], [d |-> R(5)],
                                 [e |-> R(5)], EmptyDict, EmptyDict)) :
        v \in {R(5), R(10)}}

\* compass/ holds any of these under any of its file names, backup/compass/
\* is empty or holds a copy of each, and the table is empty or holds the
\* example row; no framework is stored yet
InitFrame ==
    /\ ScoreIdle
    /\ PageIdle
    /\ frameworks = EmptyDict
    /\ backup_frameworks = EmptyDict
    /\ last_call = [op |-> "none"]
    /\ compass \in Dicts(CompassFiles, StoredEvaluations)
    /\ backup_compass \in {EmptyDict, compass}
    /\ subnets \in {[seq |-> 0, rows |-> EmptyDict],
                    save_subnet([seq |-> 0, rows |-> EmptyDict], ExampleSubnet)}
    /\ last_form = [op |-> "none", n |-> 0]
    /\ loaded = [op |-> "none"]
    /\ custom_eval = <<>>
    /\ norm_values = [op |-> "none"]

NextFrame == SaveFramework \/ DeleteFramework \/ UpdateFrameworkActiveStatus

SpecFrame == InitFrame /\ [][NextFrame]_vars

---------------------------------------------------------------------------
(* JSON values and the normalisation load_frameworks applies *)

\* a Python str is Str of its tokens; a list, a set and a file that is not
\* JSON carry their own tag; everything untagged is a dict
Str(tokens) == [str |-> tokens]
NotJson == [not_json |-> TRUE]
List(items) == [list |-> items]
Tuple(items) == [tuple |-> items]
Tags == {"str", "float", "list", "tuple", "set", "not_json", "None", "absent"}

\* isinstance(value, str), isinstance(value, dict)
is_str(value) == "str" \in DOMAIN value
is_dict(value) == DOMAIN value \cap Tags = {}

\* the quoted string tokens of the model and the words they quote
Quoted == {"'question'", "'description'", "'Q'", "'D'"}

unquote(token) ==
    CASE token = "'question'" -> "question"
      [] token = "'description'" -> "description"
      [] token = "'Q'" -> "Q"
      [] token = "'D'" -> "D"

quote(word) ==
    CASE word = "question" -> "'question'"
      [] word = "description" -> "'description'"
      [] word = "Q" -> "'Q'"
      [] word = "D" -> "'D'"

\* str(record) for a {question, description} record of one-word strings: what
\* st.text_input(value=record) shows and returns
repr_record(record) ==
    <<"{", "'question'", ":", quote(record.question.str[1]), ",",
      "'description'", ":", quote(record.description.str[1]), "}">>

\* value.startswith('{')
startswith_brace(value) == value.str # <<>> /\ value.str[1] = "{"

\* 'question' in value
contains_question(value) ==
    \E i \in DOMAIN value.str : value.str[i] \in {"question", "'question'"}

LiteralError == [raises |-> TRUE]

\* ast.literal_eval on a text that starts with '{': a dict display
\* {'k': 'v', ...}, a set display {'k', ...}, the empty dict {}, and
\* SyntaxError or ValueError on anything else
literal_eval(tokens) ==
    LET n == Len(tokens)
        inner == SubSeq(tokens, 2, n - 1)
        m == Len(inner)
        is_pairs == /\ m % 4 = 3
                    /\ \A i \in 1..m :
                          CASE i % 4 = 1 -> inner[i] \in Quoted
                            [] i % 4 = 2 -> inner[i] = ":"
                            [] i % 4 = 3 -> inner[i] \in Quoted
                            [] OTHER -> inner[i] = ","
        is_items == /\ m % 2 = 1
                    /\ \A i \in 1..m :
                          IF i % 2 = 1 THEN inner[i] \in Quoted ELSE inner[i] = ","
        keys == {unquote(inner[i]) : i \in {j \in 1..m : j % 4 = 1}}
        last(k) == CHOOSE i \in 1..m :
                      /\ i % 4 = 1 /\ unquote(inner[i]) = k
                      /\ \A j \in 1..m :
                            (j % 4 = 1 /\ unquote(inner[j]) = k) => j <= i
    IN  IF n < 2 \/ tokens[1] # "{" \/ tokens[n] # "}" THEN LiteralError
        ELSE IF m = 0 THEN EmptyDict
        ELSE IF is_pairs
        THEN [k \in keys |-> Str(<<unquote(inner[last(k) + 2])>>)]
        ELSE IF is_items
        THEN [set |-> {unquote(inner[i]) : i \in {j \in 1..m : j % 2 = 1}}]
        ELSE LiteralError

\* the "basic format" a string criterion is converted to
basic_format(value) == [question |-> value, description |-> Str(<<>>)]

\* a loop that leaves criteria[key] as it is stored
criterion_as_stored(value) == value

\* what the loop leaves in criteria[key] for one stored value
normalized_criterion(value) ==
    IF is_str(value)
    THEN IF startswith_brace(value) /\ contains_question(value)
         THEN IF literal_eval(value.str) = LiteralError
              THEN basic_format(value)
              ELSE literal_eval(value.str)
         ELSE basic_format(value)
    ELSE value

\* what the loop leaves in additional_criteria[key] for one stored entry
normalized_additional(data) ==
    IF is_dict(data)
    THEN IF "question" \notin DOMAIN data /\ "description" \in DOMAIN data
         THEN with_key(data, "question", data.description)
         ELSE IF "description" \notin DOMAIN data /\ "question" \in DOMAIN data
         THEN with_key(data, "description", Str(<<>>))
         ELSE data
    ELSE data

---------------------------------------------------------------------------
(* load_frameworks and load_compasses *)

\* framework['active'] = True when the key is missing
with_default_active(framework) ==
    IF "active" \in DOMAIN framework THEN framework
    ELSE with_key(framework, "active", TRUE)

\* TRUE when the two normalisation loops run through: .items() raises
\* AttributeError on a 'criteria', a criteria group or an
\* 'additional_criteria' that is not a dict
items_ok(framework) ==
    /\ "criteria" \in DOMAIN framework =>
          /\ is_dict(framework.criteria)
          /\ \A category \in DOMAIN framework.criteria :
                is_dict(framework.criteria[category])
    /\ "additional_criteria" \in DOMAIN framework =>
          is_dict(framework.additional_criteria)

\* the framework after both normalisation loops
normalized_framework(framework) ==
    [k \in DOMAIN framework |->
        IF k = "criteria"
        THEN [category \in DOMAIN framework.criteria |->
                [key \in DOMAIN framework.criteria[category] |->
                    normalized_criterion(framework.criteria[category][key])]]
        ELSE IF k = "additional_criteria"
        THEN [key \in DOMAIN framework.additional_criteria |->
                normalized_additional(framework.additional_criteria[key])]
        ELSE framework[k]]

\* one turn of the loop of load_frameworks over a file: "skip" when json.load
\* raises JSONDecodeError (caught inside the loop), "abort" when anything
\* else raises (caught by the outer except, which returns the list as it
\* is), "filtered" for an inactive framework under only_active, "append"
\* with the framework otherwise
load_framework_file(filepath, content, only_active) ==
    IF content = NotJson THEN [outcome |-> "skip"]
    ELSE IF ~is_dict(content) THEN [outcome |-> "abort"]
    ELSE IF only_active /\ ~with_default_active(content).active
    THEN [outcome |-> "filtered"]
    ELSE IF ~items_ok(content) THEN [outcome |-> "abort"]
    ELSE [outcome |-> "append",
          framework |-> with_key(normalized_framework(with_default_active(content)),
                                 "_filepath", filepath)]

\* one turn of the loop of load_compasses over a file
load_compass_file(filepath, content) ==
    IF content = NotJson THEN [outcome |-> "skip"]
    ELSE IF ~is_dict(content) THEN [outcome |-> "abort"]
    ELSE [outcome |-> "append", compass |-> loaded_compass(filepath, content)]

\* the list load_frameworks returns when os.listdir yields the files in the
\* given order, from turn i on with the list built so far
RECURSIVE load_frameworks_from(_, _, _, _, _)
load_frameworks_from(dir, order, only_active, i, list) ==
    IF i > Len(order) THEN list
    ELSE LET turn == load_framework_file(order[i], dir[order[i]], only_active)
         IN  IF turn.outcome = "abort" THEN list
             ELSE IF turn.outcome = "append"
             THEN load_frameworks_from(dir, order, only_active, i + 1,
                                       Append(list, turn.framework))
             ELSE load_frameworks_from(dir, order, only_active, i + 1, list)

load_frameworks(dir, order, only_active) ==
    load_frameworks_from(dir, order, only_active, 1, <<>>)

RECURSIVE load_compasses_from(_, _, _, _)
load_compasses_from(dir, order, i, list) ==
    IF i > Len(order) THEN list
    ELSE LET turn == load_compass_file(order[i], dir[order[i]])
         IN  IF turn.outcome = "abort" THEN list
             ELSE IF turn.outcome = "append"
             THEN load_compasses_from(dir, order, i + 1, Append(list, turn.compass))
             ELSE load_compasses_from(dir, order, i + 1, list)

load_compasses(dir, order) == load_compasses_from(dir, order, 1, <<>>)

\* the orders os.listdir may yield the files of a directory in
listdir(dir) ==
    {order \in [1..Cardinality(DOMAIN dir) -> DOMAIN dir] :
        \A i, j \in DOMAIN order : order[i] = order[j] => i = j}

\* the texts of the model
QuestionText == Str(<<"Q">>)
DescriptionText == Str(<<"D">>)

\* what a criterion field of the framework editor can hold when it is saved:
\* typed text, the str() of a default record, a typed record display without
\* description, an unbalanced brace, a set display, a brace without 'question'
EditorCriterionTexts ==
    {QuestionText,
     Str(repr_record([question |-> QuestionText, description |-> DescriptionText])),
     Str(<<"{", "'question'", ":", "'Q'", "}">>),
     Str(<<"{", "question">>),
     Str(<<"{", "'question'", "}">>),
     Str(<<"{", "Q", "}">>)}

\* what a file can hold for a main criterion: any of these, or a record
CriterionValues ==
    EditorCriterionTexts
        \cup {[question |-> QuestionText, description |-> DescriptionText]}

\* the additional criterion the framework editor saves
EditorAdditional ==
    [description |-> DescriptionText, weight |-> R(1), type |-> "positive"]

\* what a file can hold for an additional criterion
AdditionalEntries ==
    {EditorAdditional,
     [question |-> QuestionText, weight |-> R(1), type |-> "positive"],
     [question |-> QuestionText, description |-> DescriptionText,
      weight |-> R(1), type |-> "positive"],
     [weight |-> R(1), type |-> "positive"],
     Float(R(1))}

\* the dicts the Create Framework form hands to save_framework
EditorFrameworks ==
    {[name |-> n, criteria |-> [service |-> [a |-> v]],
      additional_criteria |-> [x |-> EditorAdditional]] :
        n \in FrameworkNames, v \in EditorCriterionTexts}

\* what a file of frameworks/ can hold before the session starts: documents
\* of every stored shape, with and without 'active', and four files that
\* are not a well-formed framework
MalformedFrameworks ==
    {NotJson, List(<<>>),
     [name |-> <<"B">>, criteria |-> List(<<>>)],
     [name |-> <<"B">>, criteria |-> [service |-> List(<<>>)]]}

FrameworkContents ==
    {[name |-> <<"B">>, criteria |-> [service |-> [a |-> v]]] : v \in CriterionValues}
        \cup {[name |-> <<"B">>, additional_criteria |-> [x |-> e]] :
                  e \in AdditionalEntries}
        \cup {[name |-> <<"B">>, active |-> b] : b \in BOOLEAN}
        \cup MalformedFrameworks

\* the file names of frameworks/: the one the editor writes and another one
LoadFiles == FrameworkFiles \cup {<<"b", "_">>}

\* what a file of compass/ can hold: a stored evaluation, or no compass
CompassContents == StoredEvaluations \cup {NotJson, List(<<>>)}

\* what the file the editor writes holds before the session starts
EditorFileContents ==
    {NotJson, List(<<>>),
     [name |-> <<"A", " ">>, active |-> TRUE],
     [name |-> <<"A", " ">>, active |-> FALSE],
     [name |-> <<"A", " ">>, criteria |-> [service |-> [a |-> QuestionText]]]}

InitLoad ==
    /\ ScoreIdle
    /\ PageIdle
    /\ frameworks \in Dicts(LoadFiles, FrameworkContents)
    /\ \A f \in DOMAIN frameworks \cap FrameworkFiles :
          frameworks[f] \in EditorFileContents
    /\ compass \in Dicts(CompassFiles, CompassContents)
    /\ frameworks = EmptyDict \/ compass = EmptyDict
    /\ backup_frameworks = EmptyDict
    /\ backup_compass = EmptyDict
    /\ last_call = [op |-> "none"]
    /\ MoreIdle

\* the fields of an evaluation that hold a Python tuple when it is built
TupleFields == {"service_research_score", "intelligence_resource_score"}

\* the evaluations the Create Compass Evaluation form hands to save_compass
EditorEvaluations ==
    {[k \in DOMAIN doc |-> IF k \in TupleFields THEN Tuple(doc[k]) ELSE doc[k]] :
        doc \in StoredEvaluations}

\* what json.dump writes for a dict of the editors, as json.load reads it
\* back: a tuple is written as an array, every other value as itself
json_document(data) ==
    [k \in DOMAIN data |->
        IF k \in TupleFields /\ "tuple" \in DOMAIN data[k]
        THEN List(data[k].tuple)
        ELSE data[k]]

\* what a call of load_frameworks leaves in loaded
frameworks_loaded(dir, order, only_active) ==
    [op |-> "load_frameworks", only_active |-> only_active,
     result |-> load_frameworks(dir, order, only_active)]

\* a page that calls load_frameworks: the admin console and add_subnets_page
\* without the filter, framework_selection_page with only_active=True
LoadFrameworks ==
    \E only_active \in BOOLEAN, order \in listdir(frameworks) :
        /\ loaded' = frameworks_loaded(frameworks, order, only_active)
        /\ UNCHANGED <<page_vars, score_vars, store_vars>>
        /\ UNCHANGED <<subnets, last_form, custom_eval, norm_values>>

\* a page that calls load_compasses
LoadCompasses ==
    \E order \in listdir(compass) :
        /\ loaded' = [op |-> "load_compasses", result |-> load_compasses(compass, order)]
        /\ UNCHANGED <<page_vars, score_vars, store_vars>>
        /\ UNCHANGED <<subnets, last_form, custom_eval, norm_values>>

\* View Frameworks: the checkbox of a listed framework is flipped,
\* update_framework_active_status writes the flag, st.rerun() loads again
ToggleFramework ==
    /\ loaded.op = "load_frameworks"
    /\ ~loaded.only_active
    /\ \E idx \in DOMAIN loaded.result :
          LET framework == loaded.result[idx]
              filepath == framework._filepath
          IN  /\ frameworks' = set_active(frameworks, filepath, ~framework.active)
              /\ backup_frameworks' =
                    set_active_backup(frameworks, backup_frameworks, filepath)
    /\ \E order \in listdir(frameworks) :
          loaded' = frameworks_loaded(frameworks', order, FALSE)
    /\ UNCHANGED <<compass, backup_compass, last_call>>
    /\ UNCHANGED <<page_vars, score_vars, subnets, last_form, custom_eval, norm_values>>

\* Create Framework: save_framework(new_framework), then st.rerun() loads
CreateFramework ==
    \E new_framework \in EditorFrameworks, copy_ok \in BOOLEAN :
        LET filename == framework_filename(new_framework.name)
        IN  /\ backup_frameworks' =
                  backup_file(frameworks, backup_frameworks, filename, copy_ok)
            /\ frameworks' = save_file(frameworks, filename,
                     json_document(framework_document(new_framework)))
            /\ \E order \in listdir(save_file(frameworks, filename, Absent)) :
                  loaded' = [op |-> "load_frameworks", only_active |-> FALSE,
                             result |-> load_frameworks(frameworks', order, FALSE),
                             saved |-> framework_document(new_framework),
                             path |-> filename]
            /\ UNCHANGED <<compass, backup_compass, last_call>>
            /\ UNCHANGED <<page_vars, score_vars, subnets, last_form, custom_eval, norm_values>>

\* Create Compass Evaluation: save_compass(compass_data) under a new file
\* name, then st.rerun() loads
CreateCompass ==
    \E compass_data \in EditorEvaluations :
        LET filename == free_compass_filename(compass, compass_data.name, 0)
        IN  /\ \E c \in 0..MaxCounter :
                  ~exists(compass, compass_filename(compass_data.name, c))
            /\ compass' = save_file(compass, filename, json_document(compass_data))
            /\ \E order \in listdir(save_file(compass, filename, Absent)) :
                  loaded' = [op |-> "load_compasses",
                             result |-> load_compasses(compass', order),
                             saved |-> compass_data, path |-> filename]
            /\ UNCHANGED <<frameworks, backup_frameworks, backup_compass, last_call>>
            /\ UNCHANGED <<page_vars, score_vars, subnets, last_form, custom_eval, norm_values>>

NextLoad == LoadFrameworks \/ LoadCompasses \/ ToggleFramework

SpecLoad == InitLoad /\ [][NextLoad]_vars

\* the editors on a store that starts empty
InitEditors == ScoreIdle /\ StoreIdle /\ MoreIdle /\ PageIdle

NextEditors ==
    \/ CreateFramework
    \/ CreateCompass
    \/ ToggleFramework
    \/ LoadFrameworks
    \/ LoadCompasses

SpecEditors == InitEditors /\ [][NextEditors]_vars

---------------------------------------------------------------------------
(* create_subnet_plot: the colour value of each bubble *)

\* most rows of the data frame, and the largest custom-eval value
MaxEntities == 3
MaxEval == 3

\* the custom-eval columns of the model: one value per row, at least one row
EvalColumns ==
    UNION {[1..n -> {R(i) : i \in 0..MaxEval}] : n \in 1..MaxEntities}

\* Series.min() and Series.max()
series_min(column) ==
    CHOOSE m \in {column[i] : i \in DOMAIN column} :
        \A i \in DOMAIN column : RatLE(m, column[i])

series_max(column) ==
    CHOOSE m \in {column[i] : i \in DOMAIN column} :
        \A i \in DOMAIN column : RatGE(m, column[i])

\* what a float division inside a pandas Series gives: no exception, NaN
\* for 0/0 and inf for x/0
NaN == [nan |-> TRUE]
Inf == [inf |-> TRUE]

series_div(p, q) ==
    IF q[1] # 0 THEN Float(RatDiv(p, q))
    ELSE IF p[1] = 0 THEN NaN ELSE Inf

\* (column - column.min()) / (column.max() - column.min())
normalized_series(column) ==
    [i \in DOMAIN column |->
        series_div(RatSub(column[i], series_min(column)),
                   RatSub(series_max(column), series_min(column)))]

\* norm_values with the conditional expression: the Series, or the float
\* 0.5 when max equals min
guarded_norm_values(column) ==
    IF series_max(column) # series_min(column)
    THEN [series |-> normalized_series(column)]
    ELSE [scalar |-> Float(Rat(1, 2))]

\* norm_values without the conditional expression
unguarded_norm_values(column) == [series |-> normalized_series(column)]

\* int() of a float that is not negative, and max(0, min(255, i))
int(q) == q[1] \div q[2]
clip(i) == IF i < 0 THEN 0 ELSE IF i > 255 THEN 255 ELSE i

\* the rgb colour of one value
rgb(val) ==
    <<clip(int(RatMul(R(255), RatSub(R(1), val)))), clip(int(RatMul(R(255), val))), 0>>

\* the colour list: one colour repeated len(subnet_data) times for a float,
\* one colour per value for a Series
bubble_colors(norm, column) ==
    IF "scalar" \in DOMAIN norm
    THEN [i \in DOMAIN column |-> rgb(norm.scalar.float)]
    ELSE [i \in DOMAIN norm.series |-> rgb(norm.series[i].float)]

\* what one call of a plotly constructor computes
plotly_plot(op, column) ==
    [op |-> op, norm |-> guarded_norm_values(column),
     colors |-> bubble_colors(guarded_norm_values(column), column)]

InitPlot ==
    /\ ScoreIdle
    /\ PageIdle
    /\ StoreIdle
    /\ subnets = [seq |-> 0, rows |-> EmptyDict]
    /\ last_form = [op |-> "none", n |-> 0]
    /\ loaded = [op |-> "none"]
    /\ custom_eval \in EvalColumns
    /\ norm_values = [op |-> "none"]

\* create_subnet_plot of app_csv_optimized.py
PlotCsvOptimized ==
    /\ norm_values' = plotly_plot("app_csv_optimized", custom_eval)
    /\ UNCHANGED <<page_vars, score_vars, store_vars, subnets, last_form, loaded, custom_eval>>

\* create_subnet_plot of backup_deprecated/app_csv.py
PlotCsv ==
    /\ norm_values' = plotly_plot("app_csv", custom_eval)
    /\ UNCHANGED <<page_vars, score_vars, store_vars, subnets, last_form, loaded, custom_eval>>

\* create_subnet_plot of attached_assets/subnet-plot.py: norm_values is
\* handed to ax.scatter as c
PlotAttached ==
    /\ norm_values' = [op |-> "subnet-plot", norm |-> unguarded_norm_values(custom_eval)]
    /\ UNCHANGED <<page_vars, score_vars, store_vars, subnets, last_form, loaded, custom_eval>>

NextPlot == PlotCsvOptimized \/ PlotCsv \/ PlotAttached

SpecPlot == InitPlot /\ [][NextPlot]_vars

---------------------------------------------------------------------------
(* load_subnets_from_csv and the visualization page *)

\* most rows of the CSV file
MaxCsvRows == 2

RequiredColumns == {"Name", "Service-Research", "Intelligence-Resource", "custom-eval"}

\* what the CSV path can hold: nothing, a file pandas cannot parse, or a
\* table with some columns and some rows
CsvFiles ==
    {[exists |-> FALSE], [exists |-> TRUE, parses |-> FALSE]}
        \cup {[exists |-> TRUE, parses |-> TRUE, columns |-> c, rows |-> n] :
                 c \in SUBSET RequiredColumns \ {{}}, n \in 0..MaxCsvRows}

\* pd.DataFrame() and DataFrame.empty
EmptyFrame == [columns |-> {}, rows |-> 0]
empty(df) == df.columns = {} \/ df.rows = 0

\* pd.read_csv(csv_path, sep=';', decimal=','): the table, or an exception
read_csv(file) ==
    IF file.exists /\ file.parses
    THEN [raises |-> FALSE, df |-> [columns |-> file.columns, rows |-> file.rows]]
    ELSE [raises |-> TRUE]

\* load_subnets_from_csv without its try/except
load_subnets_from_csv_uncaught(file) ==
    IF read_csv(file).raises
    THEN [raised |-> TRUE, df |-> EmptyFrame, shown |-> {}]
    ELSE [raised |-> FALSE, df |-> read_csv(file).df, shown |-> {}]

\* load_subnets_from_csv of app_csv_optimized.py
load_subnets_from_csv(file) ==
    IF read_csv(file).raises
    THEN [raised |-> FALSE, df |-> EmptyFrame, shown |-> {"st.error"}]
    ELSE [raised |-> FALSE, df |-> read_csv(file).df, shown |-> {}]

\* load_subnets_from_csv of backup_deprecated/app_csv.py: the file must
\* exist and the table must have the required columns
load_subnets_from_csv_deprecated(file) ==
    IF ~file.exists
    THEN [raised |-> FALSE, df |-> EmptyFrame, shown |-> {"st.warning"}]
    ELSE IF read_csv(file).raises
    THEN [raised |-> FALSE, df |-> EmptyFrame, shown |-> {"st.error"}]
    ELSE IF RequiredColumns \subseteq read_csv(file).df.columns
    THEN [raised |-> FALSE, df |-> read_csv(file).df, shown |-> {}]
    ELSE [raised |-> FALSE, df |-> EmptyFrame, shown |-> {"st.warning"}]

\* visualization_page from the loaded table on, with the number of
\* checkboxes left ticked: the warning for an empty table, the KeyError of
\* subnets_df['Name'], the warning for an empty selection, the KeyError of a
\* column create_subnet_plot reads, or the chart
visualization_page(op, load, selected) ==
    LET base == [op |-> op, load |-> load, shown |-> load.shown,
                 raised |-> load.raised, chart |-> FALSE]
    IN  IF load.raised THEN base
        ELSE IF empty(load.df)
        THEN [base EXCEPT !.shown = @ \cup {"page warning"}]
        ELSE IF "Name" \notin load.df.columns
        THEN [base EXCEPT !.raised = TRUE]
        ELSE IF selected = 0
        THEN [base EXCEPT !.shown = @ \cup {"selection warning"}]
        ELSE IF ~(RequiredColumns \subseteq load.df.columns)
        THEN [base EXCEPT !.raised = TRUE]
        ELSE [base EXCEPT !.chart = TRUE]

InitCsv ==
    /\ ScoreIdle
    /\ StoreIdle
    /\ MoreIdle
    /\ csv_file \in CsvFiles
    /\ page = [op |-> "none"]
    /\ session_state = EmptyDict
    /\ writers = EmptyDict

\* a render of the visualization page of app_csv_optimized.py
VisualizationPage ==
    \E load \in {load_subnets_from_csv(csv_file)} :
    \E selected \in 0..load.df.rows :
        /\ page' = visualization_page("app_csv_optimized", load, selected)
        /\ UNCHANGED <<score_vars, store_vars, more_vars>>
        /\ UNCHANGED <<csv_file, session_state, writers>>

\* a render of the visualization page of backup_deprecated/app_csv.py
VisualizationPageDeprecated ==
    \E load \in {load_subnets_from_csv_deprecated(csv_file)} :
    \E selected \in 0..load.df.rows :
        /\ page' = visualization_page("app_csv", load, selected)
        /\ UNCHANGED <<score_vars, store_vars, more_vars>>
        /\ UNCHANGED <<csv_file, session_state, writers>>

NextCsv == VisualizationPage \/ VisualizationPageDeprecated

SpecCsv == InitCsv /\ [][NextCsv]_vars

---------------------------------------------------------------------------
(* Calls of save_framework on one file that run at the same time *)

\* the calls that run together, and the most units of text one of them writes
MaxWriters == 2
MaxDocLen == 2

\* the file all the calls write
SharedFile == <<"a", "_">>

\* the JSON text json.dump produces in call p: size units, each marked with
\* the call it comes from; 0 marks the text the file held before
document_text(p, size) == [i \in 1..size |-> p]

\* open(filename, 'w'): the file is created or truncated
open_w(dir, filename) == put(dir, filename, <<>>)

\* json.dump and the close of the with block: the text goes to the start of
\* the file through the call's own file object; what another call wrote
\* beyond its end stays
dump(dir, filename, text) ==
    put(dir, filename,
        text \o SubSeq(dir[filename], Len(text) + 1, Len(dir[filename])))

InitWriters ==
    /\ ScoreIdle
    /\ MoreIdle
    /\ frameworks \in {EmptyDict, put(EmptyDict, SharedFile, document_text(0, MaxDocLen))}
    /\ compass = EmptyDict
    /\ backup_frameworks = EmptyDict
    /\ backup_compass = EmptyDict
    /\ last_call = [op |-> "none"]
    /\ csv_file = [exists |-> FALSE]
    /\ page = [op |-> "none"]
    /\ session_state = EmptyDict
    /\ writers \in [1..MaxWriters -> [pc : {"exists"}, size : 1..MaxDocLen]]

\* save_framework, line by line, in call p: `if os.path.exists(filename)`
CheckExists(p) ==
    /\ writers[p].pc = "exists"
    /\ writers' = [writers EXCEPT ![p].pc =
                      IF exists(frameworks, SharedFile) THEN "backup" ELSE "open"]
    /\ UNCHANGED <<score_vars, store_vars, more_vars, csv_file, page, session_state>>

\* backup_framework(filename)
BackupCopy(p) ==
    /\ writers[p].pc = "backup"
    /\ \E copy_ok \in BOOLEAN :
          backup_frameworks' =
             backup_file(frameworks, backup_frameworks, SharedFile, copy_ok)
    /\ writers' = [writers EXCEPT ![p].pc = "open"]
    /\ UNCHANGED <<frameworks, compass, backup_compass, last_call>>
    /\ UNCHANGED <<score_vars, more_vars, csv_file, page, session_state>>

\* with open(filename, 'w') as f
OpenForWrite(p) ==
    /\ writers[p].pc = "open"
    /\ frameworks' = open_w(frameworks, SharedFile)
    /\ writers' = [writers EXCEPT ![p].pc = "dump"]
    /\ UNCHANGED <<compass, backup_frameworks, backup_compass, last_call>>
    /\ UNCHANGED <<score_vars, more_vars, csv_file, page, session_state>>

\* json.dump(framework_data, f, indent=4) and the end of the with block
DumpAndClose(p) ==
    /\ writers[p].pc = "dump"
    /\ frameworks' = dump(frameworks, SharedFile, document_text(p, writers[p].size))
    /\ last_call' = [op |-> "save_framework", path |-> SharedFile, writer |-> p]
    /\ writers' = [writers EXCEPT ![p].pc = "return"]
    /\ UNCHANGED <<compass, backup_frameworks, backup_compass>>
    /\ UNCHANGED <<score_vars, more_vars, csv_file, page, session_state>>

NextWriters ==
    \E p \in 1..MaxWriters :
        CheckExists(p) \/ BackupCopy(p) \/ OpenForWrite(p) \/ DumpAndClose(p)

SpecWriters == InitWriters /\ [][NextWriters]_vars

---------------------------------------------------------------------------
(* create_quadrant_chart: the point drawn for one subnet *)

\* x_values[0] and y_values[0] for the row of a subnet with the given raw
\* scores; the averages are the ones visualization_page puts in the frame
create_quadrant_chart(chart_type, service, research, intelligence, resource) ==
    IF chart_type = "service_research"
    THEN [op |-> "create_quadrant_chart", chart_type |-> chart_type,
          x |-> plotted(group_avg(research)), y |-> plotted(group_avg(service))]
    ELSE [op |-> "create_quadrant_chart", chart_type |-> chart_type,
          x |-> plotted(group_avg(resource)), y |-> plotted(group_avg(intelligence))]

InitChart == MainInputs /\ NotCalled /\ StoreIdle /\ MoreIdle /\ PageIdle

\* the Quadrant Charts tab draws one of its two charts
QuadrantChart ==
    /\ \E chart_type \in {"service_research", "intelligence_resource"} :
          page' = create_quadrant_chart(chart_type, service_scores, research_scores,
                                        intelligence_scores, resource_scores)
    /\ UNCHANGED <<score_vars, store_vars, more_vars>>
    /\ UNCHANGED <<csv_file, session_state, writers>>

NextChart == CalculateScores \/ QuadrantChart

SpecChart == InitChart /\ [][NextChart]_vars

---------------------------------------------------------------------------
(* The criteria editor of the Create Framework and Edit Framework forms *)

\* the most criteria a group holds in the model
MaxCriteria == 3

\* st.session_state.service_criteria and st.session_state.additional_criteria
\* (edit form: st.session_state[service_dict_key], [additional_dict_key])
CriteriaGroups == {"service_criteria", "additional_criteria"}

\* a key the group was cloned with, and f"custom_service_{n}" /
\* f"custom_additional_{n}"
default_key(group) == [default |-> group]
custom_key(group, n) == [custom |-> group, n |-> n]

\* what the group's dict is cloned with on the first render
default_criterion(group) ==
    IF group = "additional_criteria"
    THEN [description |-> "d", weight |-> <<9, 10>>, type |-> "positive"]
    ELSE "d"

\* what add_service_criterion / add_additional_criterion store
new_criterion(group) ==
    IF group = "additional_criteria"
    THEN [description |-> "", weight |-> <<1, 2>>, type |-> "positive"]
    ELSE ""

\* the criterion after the user typed a description into its text input
typed(group, criterion) ==
    IF group = "additional_criteria"
    THEN [criterion EXCEPT !.description = "t"]
    ELSE "t"

\* new_key = f"custom_service_{len(st.session_state.service_criteria) + 1}"
new_key(criteria, group) == custom_key(group, Cardinality(DOMAIN criteria) + 1)

\* the first render of the form: each group cloned from the defaults
InitCriteria ==
    /\ ScoreIdle
    /\ StoreIdle
    /\ MoreIdle
    /\ csv_file = [exists |-> FALSE]
    /\ page = [op |-> "none"]
    /\ writers = EmptyDict
    /\ session_state =
          [group \in CriteriaGroups |->
              put(EmptyDict, default_key(group), default_criterion(group))]

\* the Add New ... Criterion button: the on_click callback, then the render
\* that shows the stored values and writes them back
AddCriterion(group) ==
    /\ Cardinality(DOMAIN session_state[group]) < MaxCriteria
    /\ \E key \in {new_key(session_state[group], group)} :
          /\ session_state' =
                [session_state EXCEPT ![group] = put(@, key, new_criterion(group))]
          /\ last_call' = [op |-> "add_criterion", group |-> group, key |-> key]
    /\ UNCHANGED <<frameworks, compass, backup_frameworks, backup_compass>>
    /\ UNCHANGED <<score_vars, more_vars, csv_file, page, writers>>

\* the delete button next to a criterion: del, then st.rerun()
DeleteCriterion(group, key) ==
    /\ key \in DOMAIN session_state[group]
    /\ session_state' = [session_state EXCEPT ![group] = remove(@, key)]
    /\ last_call' = [op |-> "delete_criterion", group |-> group, key |-> key]
    /\ UNCHANGED <<frameworks, compass, backup_frameworks, backup_compass>>
    /\ UNCHANGED <<score_vars, more_vars, csv_file, page, writers>>

\* a render after the user typed into a criterion's text input: the value
\* read from the widget is written back under the criterion's key
EditCriterion(group, key) ==
    /\ key \in DOMAIN session_state[group]
    /\ session_state[group][key] # typed(group, session_state[group][key])
    /\ session_state' =
          [session_state EXCEPT ![group][key] = typed(group, @)]
    /\ last_call' = [op |-> "edit_criterion", group |-> group, key |-> key]
    /\ UNCHANGED <<frameworks, compass, backup_frameworks, backup_compass>>
    /\ UNCHANGED <<score_vars, more_vars, csv_file, page, writers>>

NextCriteria ==
    \E group \in CriteriaGroups :
        \/ AddCriterion(group)
        \/ \E key \in DOMAIN session_state[group] :
              DeleteCriterion(group, key) \/ EditCriterion(group, key)

SpecCriteria == InitCriteria /\ [][NextCriteria]_vars

---------------------------------------------------------------------------
(* Calls of calculate_scores that differ from the call before in one score *)

\* the keys of the calls: two service criteria, three additional ones
RescoreServiceKeys == {"a", "b"}
RescoreAdditionalKeys == {"x", "y", "z"}

\* the weights of a framework: one criterion of each type, or every
\* criterion with a record that leaves out the weight or the type
RescoreWeights ==
    {[key \in RescoreAdditionalKeys |-> weight_data] :
        weight_data \in {[type |-> "bidirectional"], [weight |-> R(1)]}}
    \cup {[key \in RescoreAdditionalKeys |->
              [weight |-> R(1),
               type |-> IF key = "x" THEN "positive"
                        ELSE IF key = "y" THEN "negative"
                        ELSE "bidirectional"]]}

\* the scores of an additional criterion: the step below the pivot, the
\* pivot 5 and the top
RescoreValues == {R(4), R(5), R(10)}

\* the first call: service and additional scores vary, the other groups
\* hold the score 5
InitRescore ==
    /\ service_scores \in [RescoreServiceKeys -> MainValues]
    /\ research_scores = Uniform(R(5)).research
    /\ intelligence_scores = Uniform(R(5)).intelligence
    /\ resource_scores = Uniform(R(5)).resource
    /\ additional_scores \in [RescoreAdditionalKeys -> RescoreValues]
    /\ custom_weights \in RescoreWeights
    /\ NotCalled
    /\ StoreIdle
    /\ MoreIdle
    /\ PageIdle

\* no main score is lower in after than in before, over the same keys
MainRaised(before, after) ==
    /\ DOMAIN after = DOMAIN before
    /\ \A key \in DOMAIN before : RatGE(after[key], before[key])

\* no additional score changed against its type: a negative criterion's
\* score is not higher, any other criterion's score is not lower
AdditionalImproved(before, after, weights) ==
    /\ DOMAIN after = DOMAIN before
    /\ \A key \in DOMAIN before :
          IF key \notin DOMAIN weights THEN after[key] = before[key]
          ELSE IF get(weights[key], "type", "positive") = "negative"
               THEN RatLE(after[key], before[key])
          ELSE RatGE(after[key], before[key])

\* the next call, with the scores service and scores and the weights of
\* the call before
Rescore(service, scores) ==
    /\ pc = "return"
    /\ exception = "None"
    /\ service_scores' = service
    /\ additional_scores' = scores
    /\ \E r \in {calculate_scores(service, research_scores, intelligence_scores,
                                   resource_scores, scores, custom_weights)} :
          /\ result' = r
          /\ exception' = IF r = NoResult THEN "ZeroDivisionError" ELSE "None"
    /\ weighted_scores' = weighted_scores_of(scores, custom_weights)
    /\ last_call' =
          [op |-> "calculate_scores",
           improved |-> /\ MainRaised(service_scores, service)
                        /\ AdditionalImproved(additional_scores, scores,
                                              custom_weights)]
    /\ UNCHANGED <<pc, research_scores, intelligence_scores, resource_scores,
                   custom_weights>>
    /\ UNCHANGED <<frameworks, compass, backup_frameworks, backup_compass>>
    /\ UNCHANGED <<more_vars, page_vars>>

\* the next call with one service score changed
RescoreMain ==
    \E key \in DOMAIN service_scores, v \in MainValues :
        /\ v # service_scores[key]
        /\ Rescore([service_scores EXCEPT ![key] = v], additional_scores)

\* the next call with one additional score changed
RescoreAdditional ==
    \E key \in DOMAIN additional_scores, v \in RescoreValues :
        /\ v # additional_scores[key]
        /\ Rescore(service_scores, [additional_scores EXCEPT ![key] = v])

NextRescore == CalculateScores \/ RescoreMain \/ RescoreAdditional

SpecRescore == InitRescore /\ [][NextRescore]_vars

---------------------------------------------------------------------------
(* Confirm Deletion in the admin console *)

\* what a name is bound to inside admin_console_page
ModuleFunction == [function |-> TRUE]
LocalValue(value) == [value |-> value]

\* the object the page calls as delete_framework(...) / delete_compass(...):
\* the page assigns the selected document to a local variable of that name,
\* and a name assigned anywhere in a function is local in all of it
confirm_callee(selected) == LocalValue(selected)

\* the selected entry of all_frameworks / all_compasses: the loaded
\* document with its '_filepath'
selected_item(dir, filepath) == with_key(dir[filepath], "_filepath", filepath)

\* calling the object: the module-level function runs, anything else raises
\* TypeError ('dict' object is not callable)
call_raises(callee) == "function" \notin DOMAIN callee

\* the Confirm Deletion button of the Delete Framework section
ConfirmFrameworkDeletion ==
    \E filepath \in DOMAIN frameworks, copy_ok \in BOOLEAN :
        \E callee \in {confirm_callee(selected_item(frameworks, filepath))} :
            /\ backup_frameworks' =
                  IF call_raises(callee) THEN backup_frameworks
                  ELSE backup_file(frameworks, backup_frameworks, filepath, copy_ok)
            /\ frameworks' =
                  IF call_raises(callee) THEN frameworks
                  ELSE delete_file(frameworks, filepath)
            /\ last_call' =
                  [op |-> "confirm_deletion", kind |-> "framework",
                   path |-> filepath,
                   exception |-> IF call_raises(callee) THEN "TypeError"
                                 ELSE "None"]
            /\ UNCHANGED <<compass, backup_compass>>
            /\ UNCHANGED <<page_vars, score_vars, more_vars>>

\* the Confirm Deletion button of the Delete Compass Evaluation section
ConfirmCompassDeletion ==
    \E filepath \in DOMAIN compass, copy_ok \in BOOLEAN :
        \E callee \in {confirm_callee(selected_item(compass, filepath))} :
            /\ backup_compass' =
                  IF call_raises(callee) THEN backup_compass
                  ELSE backup_file(compass, backup_compass, filepath, copy_ok)
            /\ compass' =
                  IF call_raises(callee) THEN compass
                  ELSE delete_file(compass, filepath)
            /\ last_call' =
                  [op |-> "confirm_deletion", kind |-> "compass",
                   path |-> filepath,
                   exception |-> IF call_raises(callee) THEN "TypeError"
                                 ELSE "None"]
            /\ UNCHANGED <<frameworks, backup_frameworks>>
            /\ UNCHANGED <<page_vars, score_vars, more_vars>>

NextAdmin ==
    \/ SaveFramework
    \/ SaveCompass
    \/ ConfirmFrameworkDeletion
    \/ ConfirmCompassDeletion

SpecAdmin == InitStore /\ [][NextAdmin]_vars

---------------------------------------------------------------------------
(* Properties of calculate_scores *)

\* the arithmetic mean of a non-empty dict's values
Mean(d) == RatDiv(sum(d), len(d))

\* the raw average of a group, an empty group counting as 0
RawAverage(d) == IF DOMAIN d = {} THEN R(0) ELSE Mean(d)

InRange(d) == \A k \in DOMAIN d : RatGE(d[k], R(0)) /\ RatLE(d[k], R(10))

MainGroups == <<service_scores, research_scores, intelligence_scores, resource_scores>>

\* the axis coordinate the result holds for group g of MainGroups
AxisCoordinate(g) ==
    CASE g = 1 -> result.service_research_score[1]
      [] g = 2 -> result.service_research_score[2]
      [] g = 3 -> result.intelligence_resource_score[1]
      [] g = 4 -> result.intelligence_resource_score[2]

\* the keys present in both additional_scores and custom_weights
CommonKeys ==
    IF additional_scores = None \/ custom_weights = None THEN {}
    ELSE DOMAIN additional_scores \cap DOMAIN custom_weights

\* C1: total_score = base_score + additional_score, base_score is the mean
\* of the four raw group averages (an empty group counts as 0), not of the
\* plotted values, and lies in [0,10] when all main raw scores do.
C1_TotalIsBasePlusAdditional ==
    Returned =>
        /\ result.total_score = RatAdd(result.base_score, result.additional_score)
        /\ RatMul(result.base_score, R(4)) =
              RatAdd(RatAdd(RatAdd(RawAverage(service_scores),
                                   RawAverage(research_scores)),
                            RawAverage(intelligence_scores)),
                     RawAverage(resource_scores))
        /\ (\A g \in 1..4 : InRange(MainGroups[g])) =>
              RatGE(result.base_score, R(0)) /\ RatLE(result.base_score, R(10))

C1_Witness ==
    /\ Returned
    /\ Cardinality(DOMAIN service_scores) = 2
    /\ resource_scores = EmptyDict
    /\ \A g \in 1..4 : InRange(MainGroups[g])
    /\ result.base_score = Rat(25, 8)

\* C2: the tier is decided by total_score alone, inclusive lower bounds read
\* high to low: >= 8.5 Tier A, else >= 7.0 Tier B, else >= 5.5 Tier C, else
\* Tier D; every total_score gets exactly one tier.
C2_TierLadder ==
    Returned =>
        LET t == result.total_score
        IN  /\ result.tier \in {"Tier A", "Tier B", "Tier C", "Tier D"}
            /\ result.tier = "Tier A" <=> RatGE(t, Rat(17, 2))
            /\ result.tier = "Tier B" <=> RatGE(t, R(7)) /\ RatLT(t, Rat(17, 2))
            /\ result.tier = "Tier C" <=> RatGE(t, Rat(11, 2)) /\ RatLT(t, R(7))
            /\ result.tier = "Tier D" <=> RatLT(t, Rat(11, 2))

C2_Witness ==
    /\ Returned
    /\ result.total_score = Rat(17, 2)
    /\ result.tier = "Tier A"

\* C3: for a non-empty group with raw scores in [0,10] the axis coordinate is
\* 2*mean - 10, lies in [-10,10], is 10 when every score is 10 and -10 when
\* every score is 0.
C3_AxisCoordinate ==
    Returned =>
        \A g \in 1..4 :
            LET d == MainGroups[g]
                c == AxisCoordinate(g)
            IN  (DOMAIN d # {} /\ InRange(d)) =>
                    /\ RatAdd(c, R(10)) = RatMul(R(2), Mean(d))
                    /\ RatGE(c, R(-10)) /\ RatLE(c, R(10))
                    /\ (\A k \in DOMAIN d : d[k] = R(10)) => c = R(10)
                    /\ (\A k \in DOMAIN d : d[k] = R(0)) => c = R(-10)

C3_Witness ==
    /\ Returned
    /\ \A g \in 1..4 : DOMAIN MainGroups[g] # {} /\ InRange(MainGroups[g])
    /\ \E j, k \in DOMAIN service_scores : service_scores[j] # service_scores[k]
    /\ result.service_research_score = <<Rat(5, 1), R(10)>>
    /\ result.intelligence_resource_score = <<R(-10), R(0)>>

\* the contribution the rule of the three types gives a score under a weight
ClaimedContribution(score, weight, type) ==
    CASE type = "positive" -> RatMul(score, weight)
      [] type = "negative" -> RatMul(RatSub(R(10), score), weight)
      [] type = "bidirectional" ->
            IF RatGE(score, R(5)) THEN RatMul(score, weight)
            ELSE RatNeg(RatMul(RatSub(R(10), score), weight))

Typed(wd) == {"weight", "type"} \subseteq DOMAIN wd

C5_BidirectionalPivot ==
    Returned =>
        \A k \in CommonKeys :
            LET wd == custom_weights[k]
                w == get(wd, "weight", Rat(1, 2))
                s == additional_scores[k]
            IN  ("type" \in DOMAIN wd /\ wd.type = "bidirectional" /\ w[1] > 0) =>
                    /\ s = R(5) =>
                          weighted_scores[k] = RatMul(R(5), w) /\ weighted_scores[k][1] > 0
                    /\ RatLT(s, R(5)) =>
                          /\ weighted_scores[k] = RatNeg(RatMul(RatSub(R(10), s), w))
                          /\ weighted_scores[k][1] < 0
                    /\ RatGE(s, R(5)) => weighted_scores[k][1] > 0

C5_Witness ==
    /\ Returned
    /\ CommonKeys = {"x", "y"}
    /\ custom_weights["x"] = [weight |-> R(1), type |-> "bidirectional"]
    /\ custom_weights["y"] = [weight |-> R(1), type |-> "bidirectional"]
    /\ additional_scores["x"] = R(5)
    /\ additional_scores["y"] = Rat(4999, 1000)
    /\ weighted_scores["x"] = R(5)
    /\ weighted_scores["y"] = Rat(-5001, 1000)

\* C6: only keys present in both additional_scores and the weights map
\* contribute and are counted; a score without a weight entry and a weight
\* entry without a score are ignored; with no common key (either map empty or
\* absent included) additional_score is 0 and total_score equals base_score.
C6_OnlyCommonKeysContribute ==
    Returned =>
        /\ DOMAIN weighted_scores = CommonKeys
        /\ CommonKeys # {} =>
              result.additional_score =
                  RatDiv(SumOver([k \in CommonKeys |->
                                     contribution(additional_scores[k], custom_weights[k])],
                                 CommonKeys),
                         R(5 * Cardinality(CommonKeys)))
        /\ CommonKeys = {} =>
              /\ result.additional_score = R(0)
              /\ result.total_score = result.base_score

C6_Witness ==
    /\ Returned
    /\ DOMAIN additional_scores = {"x", "y"}
    /\ DOMAIN custom_weights = {"y"}
    /\ additional_scores["x"] = R(10)
    /\ additional_scores["y"] = R(10)
    /\ custom_weights["y"] = [weight |-> R(1), type |-> "positive"]
    /\ result.additional_score = R(2)

\* C7: for each of the four criteria groups, the axis score produced for an
\* empty score map is 0.
C7_EmptyGroupAxisIsZero ==
    Returned =>
        \A g \in 1..4 : DOMAIN MainGroups[g] = {} => AxisCoordinate(g) = R(0)

ResultKeys == {"service_research_score", "intelligence_resource_score",
               "total_score", "tier", "base_score", "additional_score",
               "service_avg", "research_avg", "intelligence_avg", "resource_avg"}

\* the group average the result holds for group g of MainGroups
GroupAverage(g) ==
    CASE g = 1 -> result.service_avg
      [] g = 2 -> result.research_avg
      [] g = 3 -> result.intelligence_avg
      [] g = 4 -> result.resource_avg

\* C8: calculate_scores never fails with a division by zero: whatever groups
\* are empty, and with additional scores / weights absent, empty or without a
\* common key, it returns a complete result where each empty group's average
\* is 0 and additional_score is 0.
C8_NoDivisionByZero ==
    pc = "return" =>
        /\ exception = "None"
        /\ DOMAIN result = ResultKeys
        /\ \A g \in 1..4 : DOMAIN MainGroups[g] = {} => GroupAverage(g) = R(0)
        /\ CommonKeys = {} => result.additional_score = R(0)

C8_Witness ==
    /\ pc = "return"
    /\ service_scores = EmptyDict /\ research_scores = EmptyDict
    /\ intelligence_scores = EmptyDict /\ resource_scores = EmptyDict
    /\ additional_scores # None /\ custom_weights # None
    /\ DOMAIN additional_scores = {"x"}
    /\ DOMAIN custom_weights = {"y"}
    /\ result.total_score = R(0)

Scenario ==
    /\ service_scores = [k \in {"a", "b"} |-> IF k = "a" THEN R(10) ELSE R(0)]
    /\ research_scores = [k \in {"c"} |-> R(5)]
    /\ intelligence_scores = [k \in {"d"} |-> R(10)]
    /\ resource_scores = [k \in {"e"} |-> R(0)]
    /\ additional_scores = None
    /\ custom_weights = None

\* C9 as stated: service={a:10,b:0}, research={c:5}, intelligence={d:10},
\* resource={e:0} without additional criteria scores base_score 6.25,
\* total_score 6.25, Tier C, service_research axis (0,0),
\* intelligence_resource axis (10,-10).
C9_Original ==
    (Scenario /\ pc = "return") =>
        /\ exception = "None"
        /\ result.base_score = Rat(25, 4)
        /\ result.total_score = Rat(25, 4)
        /\ result.tier = "Tier C"
        /\ result.service_research_score = <<R(0), R(0)>>
        /\ result.intelligence_resource_score = <<R(10), R(-10)>>

\* C9 amended: the scenario scores base_score 5.0 = mean(5,5,10,0),
\* total_score 5.0, Tier D, service_research axis (0,0),
\* intelligence_resource axis (10,-10).
C9_EndToEndScenario ==
    (Scenario /\ pc = "return") =>
        /\ exception = "None"
        /\ result.base_score = R(5)
        /\ result.total_score = R(5)
        /\ result.tier = "Tier D"
        /\ result.service_research_score = <<R(0), R(0)>>
        /\ result.intelligence_resource_score = <<R(10), R(-10)>>

C9_Witness == Scenario /\ pc = "return" /\ result.resource_avg = R(0)

---------------------------------------------------------------------------
(* Properties of the file store *)

\* the backup directory of the directory the last call worked on
BackupOfLastCall ==
    IF last_call.op \in {"delete_framework", "save_framework",
                         "update_framework_active_status"}
    THEN backup_frameworks
    ELSE backup_compass

\* C10: after delete_framework(path) or delete_compass(path) on an existing
\* file, the backup file of that name exists and holds what the file held
\* just before the delete; the original is never removed in a run where the
\* backup copy was not written (for example when the copy step fails).
C10_DeleteLeavesBackup ==
    (last_call.op \in {"delete_framework", "delete_compass"}
        /\ last_call.before # Absent) =>
        /\ exists(BackupOfLastCall, last_call.path)
        /\ BackupOfLastCall[last_call.path] = last_call.before
        /\ last_call.changed => last_call.copied

\* C11: every operation that overwrites an already existing framework or
\* compass file (save_framework, save_compass, update_framework_active_status)
\* first copies it to the backup directory, so that right after the overwrite
\* the backup holds the content the file had right before it.
C11_OverwriteBacksUpFirst ==
    (last_call.op \in {"save_framework", "save_compass",
                       "update_framework_active_status"}
        /\ last_call.before # Absent) =>
        /\ exists(BackupOfLastCall, last_call.path)
        /\ BackupOfLastCall[last_call.path] = last_call.before

---------------------------------------------------------------------------
(* Properties of the evaluation forms and the subnets table *)

\* the stored scores of a persisted record are what calculate_scores returns
\* for the raw scores and weights the same record stores
RecomputedFromOwnRawScores(record) ==
    \A scores \in {record_scores(record)} :
        /\ scores # NoResult
        /\ record.total_score = scores.total_score
        /\ record.tier = scores.tier
        /\ record.service_research_score = scores.service_research_score
        /\ record.intelligence_resource_score = scores.intelligence_resource_score
        /\ record.tier = tier_of(record.total_score)

\* C12: in every record persisted by save_subnet or by the compass create and
\* edit forms the stored tier is the ladder applied to the stored total_score,
\* and the stored total_score and axis pairs are what calculate_scores
\* returns for the raw scores and weights stored in that record; a tier
\* supplied by the caller is never stored in place of the recomputed one.
C12_PersistedScoresAreRecomputed ==
    /\ \A file \in DOMAIN compass : RecomputedFromOwnRawScores(compass[file])
    /\ \A id \in DOMAIN subnets.rows :
          RecomputedFromOwnRawScores(subnets.rows[id])

C12_Witness ==
    /\ last_form.op = "admin_edit"
    /\ ~last_form.raised
    /\ last_form.moved
    /\ compass[last_form.file].service_oriented_scores = [a |-> R(3)]
    /\ \E id \in DOMAIN subnets.rows : subnets.rows[id].tier = "Tier B"

\* the forms that edit an evaluation that is already stored
EditForms == {"update_row", "update_compass", "admin_edit"}

\* C13: when an existing compass evaluation is edited and submitted, the
\* recomputed values replace the prior ones: the number of compass files and
\* of table rows is what it was, and the file the evaluation was taken from
\* holds the recomputed values.
C13_EditReplacesPriorValues ==
    [][(last_form'.op \in EditForms /\ ~last_form'.raised) =>
          /\ Cardinality(DOMAIN compass') = Cardinality(DOMAIN compass)
          /\ Cardinality(DOMAIN subnets'.rows) = Cardinality(DOMAIN subnets.rows)
          /\ last_form'.file # <<>> =>
                /\ compass'[last_form'.file] # compass[last_form'.file]
                      \/ ~last_form'.moved
                      \/ last_form'.op = "admin_edit"
                /\ RecomputedFromOwnRawScores(compass'[last_form'.file])]_vars

\* the record an edit was taken from, and the record that edit stored
EditedRecord ==
    IF last_form'.id # 0 THEN subnets.rows[last_form'.id]
    ELSE compass[last_form'.file]

StoredRecord ==
    IF last_form'.id # 0 THEN subnets'.rows[last_form'.id]
    ELSE IF last_form'.op = "admin_edit" THEN compass'[last_form'.file]
    ELSE compass'[free_compass_filename(compass, FormName, 0)]

\* C14: re-scoring a saved evaluation uses the weights stored in it, not the
\* framework's current additional criteria: an edit that moves no slider and
\* is saved stores the total_score and tier that were stored before.
C14_RescoreUsesStoredSnapshot ==
    [][(last_form'.op \in EditForms /\ ~last_form'.raised /\ ~last_form'.moved) =>
          /\ StoredRecord.total_score = EditedRecord.total_score
          /\ StoredRecord.tier = EditedRecord.tier]_vars

\* C15: save_framework, update_framework_active_status and delete_framework
\* leave every file of compass/ and backup/compass/ and every row of the
\* subnets table as it was, so every compass still loads with its stored
\* scores, total_score and tier.
C15_FrameworkOpsLeaveCompasses ==
    [][last_call'.op \in {"save_framework", "update_framework_active_status",
                          "delete_framework"} =>
          /\ compass' = compass
          /\ backup_compass' = backup_compass
          /\ subnets' = subnets
          /\ \A file \in DOMAIN compass :
                /\ exists(compass', file)
                /\ loaded_compass(file, compass'[file]) =
                      with_key(with_key(compass[file], "_filepath", file),
                               "enabled", TRUE)]_vars

C15_Witness ==
    /\ last_call.op = "delete_framework"
    /\ last_call.changed
    /\ frameworks = EmptyDict
    /\ Cardinality(DOMAIN compass) = 2
    /\ DOMAIN backup_compass # {}
    /\ DOMAIN subnets.rows # {}

---------------------------------------------------------------------------
(* Properties of load_frameworks and load_compasses *)

\* a record with both question and description
HasBoth(value) ==
    is_dict(value) /\ {"question", "description"} \subseteq DOMAIN value

\* a framework in the canonical shape
Canonical(framework) ==
    /\ "criteria" \in DOMAIN framework =>
          \A category \in DOMAIN framework.criteria :
             \A key \in DOMAIN framework.criteria[category] :
                HasBoth(framework.criteria[category][key])
    /\ "additional_criteria" \in DOMAIN framework =>
          \A key \in DOMAIN framework.additional_criteria :
             HasBoth(framework.additional_criteria[key])

\* the frameworks of the last call of load_frameworks
LoadedFrameworks ==
    IF loaded.op = "load_frameworks"
    THEN {loaded.result[i] : i \in DOMAIN loaded.result}
    ELSE {}

\* C16: every framework load_frameworks returns is in the canonical shape,
\* whatever shapes its file held: each criterion of a main group is a record
\* with both question and description, and each additional criterion
\* carries both question and description.
C16_LoadedFrameworksAreCanonical ==
    \A framework \in LoadedFrameworks : Canonical(framework)

\* a file that holds a framework: a JSON object whose criteria, criteria
\* groups and additional criteria are key-value mappings
WellFormedFramework(content) == is_dict(content) /\ items_ok(content)

\* the files the last load returned a document for
LoadedFiles == {loaded.result[i]._filepath : i \in DOMAIN loaded.result}

\* C17: load_frameworks and load_compasses return every well-formed document
\* of their directory whatever other files are there: a file that is not
\* JSON, or that has a wrongly shaped value, is skipped alone and does not
\* stop later files from being loaded.
C17_MalformedFileSkippedAlone ==
    /\ (loaded.op = "load_frameworks" /\ ~loaded.only_active) =>
          \A file \in DOMAIN frameworks :
             WellFormedFramework(frameworks[file]) => file \in LoadedFiles
    /\ loaded.op = "load_compasses" =>
          \A file \in DOMAIN compass :
             is_dict(compass[file]) => file \in LoadedFiles

\* the stored active flag is true or absent
StoredActive(content) == "active" \in DOMAIN content => content.active

\* the document without its active flag
OtherFields(content) ==
    [k \in DOMAIN content \ {"active"} |-> content[k]]

\* C18: load_frameworks(only_active=True) returns exactly the frameworks
\* whose stored active flag is true or absent; the admin toggle keeps the
\* file of the framework with all other fields unchanged, and the load
\* without the filter that follows still returns it.
C18_OnlyActiveFilter ==
    [][/\ (loaded'.op = "load_frameworks" /\ loaded'.only_active) =>
             {loaded'.result[i]._filepath : i \in DOMAIN loaded'.result} =
                {file \in DOMAIN frameworks' :
                    /\ WellFormedFramework(frameworks'[file])
                    /\ StoredActive(frameworks'[file])}
       /\ frameworks' # frameworks =>
             /\ DOMAIN frameworks' = DOMAIN frameworks
             /\ \A file \in DOMAIN frameworks :
                   /\ is_dict(frameworks[file]) =>
                         OtherFields(frameworks'[file]) = OtherFields(frameworks[file])
                   /\ frameworks'[file] # frameworks[file] =>
                         \E i \in DOMAIN loaded'.result :
                            loaded'.result[i]._filepath = file]_vars

---------------------------------------------------------------------------
(* Properties of saving and loading again *)

\* the document the load that followed the last save returned for its file
Reloaded ==
    CHOOSE doc \in {loaded.result[i] : i \in DOMAIN loaded.result} :
        doc._filepath = loaded.path

SavedAndReloaded ==
    /\ "saved" \in DOMAIN loaded
    /\ \E i \in DOMAIN loaded.result : loaded.result[i]._filepath = loaded.path

ReloadedCriterion(text) ==
    CASE text = QuestionText -> [question |-> text, description |-> Str(<<>>)]
      [] text = Str(<<"{", "'question'", ":", "'Q'", ",", "'description'", ":", "'D'", "}">>)
            -> [question |-> Str(<<"Q">>), description |-> Str(<<"D">>)]
      [] text = Str(<<"{", "'question'", ":", "'Q'", "}">>)
            -> [question |-> Str(<<"Q">>)]
      [] text = Str(<<"{", "'question'", "}">>) -> [set |-> {"question"}]
      [] OTHER -> [question |-> text, description |-> Str(<<>>)]

---------------------------------------------------------------------------
(* Properties of create_subnet_plot *)

\* the colour value of row i after the last call
ColourValue(i) ==
    IF "scalar" \in DOMAIN norm_values.norm
    THEN norm_values.norm.scalar
    ELSE norm_values.norm.series[i]

\* C20: in every create_subnet_plot, the colour value of each entity is
\* (score - min)/(max - min) and lies in [0,1], the lowest-scored entity at
\* the red end and the highest at the green end; when all scores are equal
\* every entity gets the midpoint value 0.5.
C20_ColourValues ==
    norm_values.op # "none" =>
       LET lo == series_min(custom_eval)
           hi == series_max(custom_eval)
       IN  \A i \in DOMAIN custom_eval :
              IF lo = hi
              THEN ColourValue(i) = Float(Rat(1, 2))
              ELSE /\ ColourValue(i) =
                         Float(RatDiv(RatSub(custom_eval[i], lo), RatSub(hi, lo)))
                   /\ RatGE(ColourValue(i).float, R(0))
                   /\ RatLE(ColourValue(i).float, R(1))
                   /\ custom_eval[i] = lo => ColourValue(i) = Float(R(0))
                   /\ custom_eval[i] = hi => ColourValue(i) = Float(R(1))
                   /\ "colors" \in DOMAIN norm_values =>
                         /\ custom_eval[i] = lo => norm_values.colors[i] = <<255, 0, 0>>
                         /\ custom_eval[i] = hi => norm_values.colors[i] = <<0, 255, 0>>

---------------------------------------------------------------------------
(* Properties of load_subnets_from_csv *)

\* C21: load_subnets_from_csv never raises; when the CSV file is absent or
\* cannot be parsed it returns an empty table and shows a message, and the
\* visualization page then shows a warning and builds no chart; a chart is
\* built only from a non-empty table that has the columns Name,
\* Service-Research, Intelligence-Resource and custom-eval.
C21_MissingCsvIsEmptyTable ==
    page.op \in {"app_csv_optimized", "app_csv"} =>
       /\ ~page.load.raised
       /\ (~csv_file.exists \/ ~csv_file.parses) =>
             /\ empty(page.load.df)
             /\ page.load.shown # {}
             /\ "page warning" \in page.shown
             /\ ~page.chart
             /\ ~page.raised
       /\ page.chart =>
             /\ ~empty(page.load.df)
             /\ RequiredColumns \subseteq page.load.df.columns
             /\ csv_file.exists /\ csv_file.parses /\ csv_file.rows > 0
             /\ RequiredColumns \subseteq csv_file.columns

C21_Witness ==
    /\ page.op = "app_csv_optimized"
    /\ ~csv_file.exists
    /\ page.shown = {"st.error", "page warning"}
    /\ ~page.chart

---------------------------------------------------------------------------
(* Properties of calls that run at the same time *)

\* C22: when the calls of save_framework on one file have all returned, the
\* file holds exactly the document of the call whose write came last, never
\* another call's document and never a mixture.
C22_LastWriterWins ==
    (\A p \in DOMAIN writers : writers[p].pc = "return") =>
       \/ DOMAIN writers = {}
       \/ frameworks[SharedFile] =
             document_text(last_call.writer, writers[last_call.writer].size)

---------------------------------------------------------------------------
(* More properties of calculate_scores *)

\* the absolute value of a rational
RatAbs(p) == <<Abs(p[1]), p[2]>>

\* C23: with a single contributing additional criterion of weight w > 0 and
\* a raw score in [0,10], of any type, the magnitude of additional_score is
\* at most w/5.
C23_SingleCriterionBound ==
    (Returned /\ Cardinality(CommonKeys) = 1) =>
       \A key \in CommonKeys :
          LET weight == get(custom_weights[key], "weight", Rat(1, 2))
              score == additional_scores[key]
          IN  (RatGE(score, R(0)) /\ RatLE(score, R(10)) /\ ~RatLE(weight, R(0))) =>
                 RatLE(RatAbs(result.additional_score), RatDiv(weight, R(5)))

---------------------------------------------------------------------------
(* More properties of the file store *)

\* C24: there is one backup slot per file and it holds the last content
\* before the latest change: a save_framework or delete_framework that
\* overwrites or deletes an existing file leaves in backup/frameworks, when
\* a backup of the file exists, the content the file had just before; a
\* first-time creation writes no backup.
C24_BackupHoldsLastContent ==
    [][last_call'.op \in {"save_framework", "delete_framework"} =>
          IF exists(frameworks, last_call'.path)
          THEN exists(backup_frameworks', last_call'.path) =>
                  backup_frameworks'[last_call'.path] = frameworks[last_call'.path]
          ELSE backup_frameworks' = backup_frameworks]_vars

---------------------------------------------------------------------------
(* More properties of the evaluation forms *)

\* a weights dict that maps every key to a record holding weight and type
RecordWeights(weights) ==
    \A key \in DOMAIN weights :
       ~is_float(weights[key]) /\ {"weight", "type"} \subseteq DOMAIN weights[key]

\* C25: every submit of a scoring form hands calculate_scores weights that
\* map each additional criterion to a record holding weight and type, so the
\* submit yields a total_score and a tier instead of failing, and the
\* weights stored with the evaluation have that record shape.
C25_WeightsAreRecords ==
    [][last_form'.n # last_form.n =>
          /\ ~last_form'.raised
          /\ \A file \in DOMAIN compass' :
                RecordWeights(compass'[file].additional_criteria_scores.weights)
          /\ \A id \in DOMAIN subnets'.rows :
                RecordWeights(get(subnets'.rows[id].additional_criteria_scores,
                                  "weights", EmptyDict))]_vars

---------------------------------------------------------------------------
(* Properties of create_quadrant_chart *)

\* C26: the point drawn on the service_research chart has x equal to the
\* first and y equal to the second component of the service_research pair
\* calculate_scores returns for the same raw scores, and likewise for the
\* intelligence_resource chart.
C26_ChartPointIsReturnedPair ==
    (Returned /\ page.op = "create_quadrant_chart") =>
       LET pair == IF page.chart_type = "service_research"
                   THEN result.service_research_score
                   ELSE result.intelligence_resource_score
       IN  page.x = pair[1] /\ page.y = pair[2]

\* C27: save_compass called without a filename never overwrites: each such
\* call creates a file whose name did not exist before, increases the number
\* of files in compass/ by exactly one, and leaves the content of every
\* file that was there unchanged.
C27_SaveCompassNeverOverwrites ==
    [][(last_call'.op = "save_compass" /\ ~last_call'.given) =>
          /\ ~exists(compass, last_call'.path)
          /\ exists(compass', last_call'.path)
          /\ Cardinality(DOMAIN compass') = Cardinality(DOMAIN compass) + 1
          /\ \A file \in DOMAIN compass :
                exists(compass', file) /\ compass'[file] = compass[file]]_vars

C27_Witness ==
    /\ last_call.op = "save_compass"
    /\ ~last_call.given
    /\ last_call.path = compass_filename(<<"S", " ">>, 1)
    /\ Cardinality(DOMAIN compass) = 2

---------------------------------------------------------------------------
(* Properties of the criteria editor *)

\* C28: every Add action on a group increases the number of criteria in that
\* group by exactly one, gives the new criterion a key that was not in the
\* group, and leaves the key and text of every existing criterion unchanged.
C28_AddCriterionAddsNewKey ==
    [][last_call'.op = "add_criterion" =>
          LET before == session_state[last_call'.group]
              after == session_state'[last_call'.group]
          IN  /\ last_call'.key \notin DOMAIN before
              /\ Cardinality(DOMAIN after) = Cardinality(DOMAIN before) + 1
              /\ \A key \in DOMAIN before :
                    key \in DOMAIN after /\ after[key] = before[key]]_vars

---------------------------------------------------------------------------
(* Properties of scoring again *)

\* position of a tier in the order Tier D < Tier C < Tier B < Tier A
TierRank(tier) ==
    CASE tier = "Tier A" -> 3
      [] tier = "Tier B" -> 2
      [] tier = "Tier C" -> 1
      [] OTHER -> 0

\* every weight the call can read is greater than 0
WeightsPositive ==
    \A key \in DOMAIN custom_weights :
        ~RatLE(get(custom_weights[key], "weight", Rat(1, 2)), R(0))

\* C29: with the keys and all weights (> 0) held fixed, raising main scores,
\* raising positive or bidirectional additional scores and lowering negative
\* additional scores never decreases total_score and never moves the tier
\* to a lower rank.
C29_ScoresAreMonotone ==
    [][(/\ Returned /\ pc' = "return" /\ exception' = "None"
        /\ WeightsPositive
        /\ custom_weights' = custom_weights
        /\ MainRaised(service_scores, service_scores')
        /\ MainRaised(research_scores, research_scores')
        /\ MainRaised(intelligence_scores, intelligence_scores')
        /\ MainRaised(resource_scores, resource_scores')
        /\ AdditionalImproved(additional_scores, additional_scores',
                              custom_weights))
       => /\ RatGE(result'.total_score, result.total_score)
          /\ TierRank(result'.tier) >= TierRank(result.tier)]_vars

\* a call that changed no score against its type and ended in
\* Tier B, with the negative criterion at 4 and the bidirectional one at
\* the pivot
C29_Witness ==
    /\ Returned
    /\ last_call.op = "calculate_scores"
    /\ last_call.improved
    /\ get(custom_weights["y"], "type", "positive") = "negative"
    /\ additional_scores["y"] = R(4)
    /\ additional_scores["z"] = R(5)
    /\ result.tier = "Tier B"

---------------------------------------------------------------------------
(* Properties of the admin console *)

\* C30: Confirm Deletion for a selected framework (or compass evaluation)
\* that has a file path completes without an exception; afterwards the file
\* is no longer in its primary directory and its backup exists.
C30_ConfirmDeletionDeletes ==
    last_call.op = "confirm_deletion" =>
        /\ last_call.exception = "None"
        /\ IF last_call.kind = "framework"
           THEN /\ ~exists(frameworks, last_call.path)
                /\ exists(backup_frameworks, last_call.path)
           ELSE /\ ~exists(compass, last_call.path)
                /\ exists(backup_compass, last_call.path)

=============================================================================
